---- MODULE Spec2Model ----
(***************************************************************************)
(* The session coordinator of codxell (the socket.io server that follows   *)
(* the React client in src/src/app/App.tsx, lines 1103-1341): the waiting  *)
(* queue, the activeRooms map, the per-socket rate records and the         *)
(* socket.io broadcast groups the handlers join, leave and emit to.        *)
(* Each handler runs to completion on Node's single thread, so each        *)
(* handler is one action.                                                  *)
(***************************************************************************)
EXTENDS Integers, Sequences, FiniteSets, TLC

\* ------------------------------------------------------------------ bounds
\* Number of socket ids the transport hands out in one run.
NumConns == 3
\* Rooms created in one run.
MaxRooms == 2
\* Client events remembered in one run of the trace specification.
MaxHist == 4
\* Number of clock ticks explored by the rate-limiter specification.
MaxTicks == 3

\* Messages a client's user adds to the list of one chat.
MaxShown == 2

\* The longest run of one character in a username a client sends.
MaxName == 51

\* The length of a socket id (socket.io hands out ids of 20 characters).
IdLen == 2

\* ------------------------------------------------------- program constants
MESSAGE_RATE_LIMIT == 10
RATE_WINDOW == 1000

\* The clock advances half a window at a time, so that a message can arrive
\* before, exactly at, and after a record's resetTime.
TickMs == RATE_WINDOW \div 2

Ids == 1 .. NumConns

\* undefined (a missing map entry, a find() without a match)
None == << >>

\* ------------------------------------------------------------------- state
VARIABLES
    nextId,         \* the next socket id the transport assigns
    live,           \* the sockets that are connected
    waitingQueue,   \* let waitingQueue = []
    activeRooms,    \* Map socketId -> roomId, as its entries in insertion order
    publicKeys,     \* Map socketId -> publicKey
    messageCounts,  \* Map socketId -> {count, resetTime}
    socketData,     \* socket.data of each socket: username, profilePic
    joined,         \* socket.io adapter: the rooms each socket has joined
    now,            \* Date.now()
    created,        \* the number of rooms created so far
    last,           \* the inbound event handled last
    out,            \* the outbound events that handler emitted, in order
    hist,           \* inbound events remembered: SpecTrace keeps those of the
                    \* run, SpecKeys and SpecRelay the one being handled
    client          \* the React state of one browser client (App, lines 7-48)

vars == << nextId, live, waitingQueue, activeRooms, publicKeys, messageCounts,
           socketData, joined, now, created, last, out, hist, client >>

\* ---------------------------------------------------------------- room ids
\* `room_${socket.id}_${partnerSocket.id}`: the joiner's id, then the waiting
\* socket's id.
RoomId(j, w) == << j, w >>

\* Socket ids of uneven length that contain the separator.
SocketIdTextUneven(c) ==
    CASE c = 1 -> << "a" >>
      [] c = 2 -> << "c", "_", "b" >>
      [] c = 3 -> << "a", "_", "c" >>
      [] c = 4 -> << "b" >>
      [] OTHER -> << "d" >> \o [ i \in 1 .. c |-> "d" ]

\* socket.id as the transport writes it: IdLen characters of the base64url
\* alphabet, which has the underscore in it, different for every socket.
\* Socket c gets the binary digits of c, with "_" for 1 and "a" for 0.
SocketIdText(c) ==
    [ i \in 1 .. IdLen |->
        IF (c \div (2 ^ (IdLen - i))) % 2 = 1 THEN "_" ELSE "a" ]

\* The string `room_${socket.id}_${partnerSocket.id}` that stands behind the
\* room id << j, w >>.
RoomText(roomId) ==
    << "r", "o", "o", "m", "_" >> \o SocketIdText(roomId[1])
        \o << "_" >> \o SocketIdText(roomId[2])

\* Every socket is in the broadcast group named by its own id.
OwnRoom(c) == << c >>

\* The values a client can put in a payload's roomId.
\* undefined, or a string that names no group, is None.
RoomNames == { OwnRoom(c) : c \in Ids }
             \cup { RoomId(p[1], p[2]) : p \in { q \in Ids \X Ids : q[1] # q[2] } }
             \cup { None }

\* ------------------------------------------------------ Map (activeRooms)
MapKeys(m) == { m[i].id : i \in DOMAIN m }

MapHas(m, k) == k \in MapKeys(m)

MapGet(m, k) ==
    IF MapHas(m, k)
    THEN m[CHOOSE i \in DOMAIN m : m[i].id = k].room
    ELSE None

MapSet(m, k, v) ==
    IF MapHas(m, k)
    THEN [ i \in DOMAIN m |-> IF m[i].id = k THEN [ id |-> k, room |-> v ] ELSE m[i] ]
    ELSE Append(m, [ id |-> k, room |-> v ])

\* A delete() that removes nothing.
MapDeleteNothing(m, k) == m

\* Map.delete on activeRooms
MapDelete(m, k) == SelectSeq(m, LAMBDA e : e.id # k)

\* A scan whose id test is inverted: it finds the socket itself.
FindPartnerSelf(m, roomId, self) ==
    LET hits == { i \in DOMAIN m : m[i].room = roomId /\ m[i].id = self }
    IN  IF hits = {} THEN {}
        ELSE { m[CHOOSE i \in hits : \A k \in hits : i <= k].id }

\* Array.from(activeRooms.entries()).find(([id, room]) =>
\*     room === roomId && id !== socket.id)?.[0]
\* The first match in insertion order, as a set: empty when find() returns
\* undefined.
FindPartner(m, roomId, self) ==
    LET hits == { i \in DOMAIN m : m[i].room = roomId /\ m[i].id # self }
    IN  IF hits = {} THEN {}
        ELSE { m[CHOOSE i \in hits : \A k \in hits : i <= k].id }

\* A filter that removes nothing.
QueueWithoutNothing(q, c) == q

\* A filter with its test inverted: it keeps the socket and drops the others.
QueueWithoutOthers(q, c) == SelectSeq(q, LAMBDA s : s = c)

\* A filter that hands the remaining sockets back in reverse order.
QueueWithoutReversed(q, c) ==
    LET kept == SelectSeq(q, LAMBDA s : s # c)
    IN  [ i \in DOMAIN kept |-> kept[Len(kept) + 1 - i] ]

\* waitingQueue.filter(s => s.id !== socket.id)
QueueWithout(q, c) == SelectSeq(q, LAMBDA s : s # c)

\* waitingQueue.find(s => s.id === socket.id)
InQueue(q, c) == \E i \in DOMAIN q : q[i] = c

\* ------------------------------------------------- socket.io broadcasting
\* The connected sockets in the broadcast group `room`.
Members(room) == { m \in live : room = OwnRoom(m) \/ room \in joined[m] }

Event(to, ev, from, room, data) ==
    [ to |-> to, ev |-> ev, from |-> from, room |-> room, data |-> data ]

RECURSIVE Deliver(_, _, _, _, _)
Deliver(targets, ev, from, room, data) ==
    IF targets = {} THEN << >>
    ELSE LET t == CHOOSE x \in targets : \A y \in targets : x <= y
         IN  << Event(t, ev, from, room, data) >>
             \o Deliver(targets \ { t }, ev, from, room, data)

\* A broadcast that does not leave out the sender.
SocketToAll(c, room, ev, data) == Deliver(Members(room), ev, c, room, data)

\* socket.to(room).emit(ev, data): every member of the group but the sender.
SocketTo(c, room, ev, data) == Deliver(Members(room) \ { c }, ev, c, room, data)

\* An emit that reaches every connected socket.
IoToEveryone(c, room, ev, data) == Deliver(live, ev, c, room, data)

\* An emit that sends the event as a partner_public_key.
IoToAsKey(c, room, ev, data) ==
    Deliver(Members(room), "partner_public_key", c, room, data)

\* io.to(room).emit(ev, data): every member of the group.
IoTo(c, room, ev, data) == Deliver(Members(room), ev, c, room, data)

\* socket.emit(ev, data): the socket itself.
SocketEmit(c, ev, data) == << Event(c, ev, c, OwnRoom(c), data) >>

\* ------------------------------------------------------------ rate limiter
HasRecord(mc, c) == c \in DOMAIN mc

\* A window that is over as soon as the clock reaches its resetTime.
WindowOverAtEnd(mc, c, t) == ~HasRecord(mc, c) \/ t >= mc[c].resetTime

\* !record || now > record.resetTime
WindowOver(mc, c, t) == ~HasRecord(mc, c) \/ t > mc[c].resetTime

\* A window that opens with nothing counted.
NewWindowFromZero(mc, c, t) ==
    [ k \in DOMAIN mc \cup { c } |->
        IF k = c THEN [ count |-> 0, resetTime |-> t + RATE_WINDOW ] ELSE mc[k] ]

\* messageCounts.set(socketId, { count: 1, resetTime: now + RATE_WINDOW })
NewWindow(mc, c, t) ==
    [ k \in DOMAIN mc \cup { c } |->
        IF k = c THEN [ count |-> 1, resetTime |-> t + RATE_WINDOW ] ELSE mc[k] ]

\* A limiter that lets the message through when the count equals the limit.
CheckMessageRateLimitOffByOne(mc, c, t) ==
    IF WindowOver(mc, c, t)
    THEN [ allowed |-> TRUE, counts |-> NewWindow(mc, c, t) ]
    ELSE IF mc[c].count > MESSAGE_RATE_LIMIT
    THEN [ allowed |-> FALSE, counts |-> mc ]
    ELSE [ allowed |-> TRUE, counts |-> [ mc EXCEPT ![c].count = @ + 1 ] ]

\* A limiter that keeps one record for all sockets, under the first id.
CheckMessageRateLimitShared(mc, c, t) ==
    IF WindowOver(mc, 1, t)
    THEN [ allowed |-> TRUE, counts |-> NewWindow(mc, 1, t) ]
    ELSE IF mc[1].count >= MESSAGE_RATE_LIMIT
    THEN [ allowed |-> FALSE, counts |-> mc ]
    ELSE [ allowed |-> TRUE, counts |-> [ mc EXCEPT ![1].count = @ + 1 ] ]

\* A limiter that counts every message and rejects none.
CheckMessageRateLimitNoReject(mc, c, t) ==
    IF WindowOver(mc, c, t)
    THEN [ allowed |-> TRUE, counts |-> NewWindow(mc, c, t) ]
    ELSE [ allowed |-> TRUE, counts |-> [ mc EXCEPT ![c].count = @ + 1 ] ]

\* A limiter whose rejection starts the window again.
CheckMessageRateLimitExtends(mc, c, t) ==
    IF WindowOver(mc, c, t)
    THEN [ allowed |-> TRUE, counts |-> NewWindow(mc, c, t) ]
    ELSE IF mc[c].count >= MESSAGE_RATE_LIMIT
    THEN [ allowed |-> FALSE,
           counts |-> [ mc EXCEPT ![c].resetTime = t + RATE_WINDOW ] ]
    ELSE [ allowed |-> TRUE, counts |-> [ mc EXCEPT ![c].count = @ + 1 ] ]

\* A limiter that opens a new window where it should reject.
CheckMessageRateLimitRestarts(mc, c, t) ==
    IF WindowOver(mc, c, t) \/ mc[c].count >= MESSAGE_RATE_LIMIT
    THEN [ allowed |-> TRUE, counts |-> NewWindow(mc, c, t) ]
    ELSE [ allowed |-> TRUE, counts |-> [ mc EXCEPT ![c].count = @ + 1 ] ]

\* checkMessageRateLimit(socketId) at time t: what it returns and what it
\* leaves in messageCounts.
CheckMessageRateLimit(mc, c, t) ==
    IF WindowOver(mc, c, t)
    THEN [ allowed |-> TRUE, counts |-> NewWindow(mc, c, t) ]
    ELSE IF mc[c].count >= MESSAGE_RATE_LIMIT
    THEN [ allowed |-> FALSE, counts |-> mc ]
    ELSE [ allowed |-> TRUE, counts |-> [ mc EXCEPT ![c].count = @ + 1 ] ]

\* A delete() that leaves the record where it is.
MapWithoutNothing(f, k) == f

\* Map.delete on messageCounts and publicKeys
MapWithout(f, k) == [ x \in DOMAIN f \ { k } |-> f[x] ]

\* ------------------------------------------------------- input validation
\* Strings are sequences of characters; the characters that TLA+ strings
\* would have to escape are written by name.
Anonymous == << "A", "n", "o", "n", "y", "m", "o", "u", "s" >>

Whitespace == { " ", "tab", "newline" }

\* String.prototype.trim
RECURSIVE TrimLeft(_)
TrimLeft(s) ==
    IF s # << >> /\ Head(s) \in Whitespace THEN TrimLeft(Tail(s)) ELSE s

RECURSIVE TrimRight(_)
TrimRight(s) ==
    IF s # << >> /\ s[Len(s)] \in Whitespace
    THEN TrimRight(SubSeq(s, 1, Len(s) - 1))
    ELSE s

Trim(s) == TrimRight(TrimLeft(s))

\* validator.escape, one character at a time
EscapeChar(ch) ==
    CASE ch = "&" -> << "&", "a", "m", "p", ";" >>
      [] ch = "dquote" -> << "&", "q", "u", "o", "t", ";" >>
      [] ch = "squote" -> << "&", "#", "x", "2", "7", ";" >>
      [] ch = "<" -> << "&", "l", "t", ";" >>
      [] ch = ">" -> << "&", "g", "t", ";" >>
      [] ch = "/" -> << "&", "#", "x", "2", "F", ";" >>
      [] ch = "backslash" -> << "&", "#", "x", "5", "C", ";" >>
      [] ch = "backtick" -> << "&", "#", "9", "6", ";" >>
      [] OTHER -> << ch >>

RECURSIVE Escape(_)
Escape(s) == IF s = << >> THEN << >> ELSE EscapeChar(Head(s)) \o Escape(Tail(s))

\* A substring that cuts nothing.
SubstringAll(s, n) == s

\* s.substring(0, n)
Substring(s, n) == SubSeq(s, 1, IF Len(s) < n THEN Len(s) ELSE n)

\* The longest username kept
MaxUsername == 50

\* sanitizeUsername(username): the payload field is [ kind, text ], kind being
\* the JavaScript type of the value the client sent.
sanitizeUsername(username) ==
    IF username.kind # "string" \/ username.text = << >>
    THEN Anonymous
    ELSE LET sanitized == Escape(Trim(username.text))
             cut == Substring(sanitized, MaxUsername)
         IN  IF cut = << >> THEN Anonymous ELSE cut

\* A username of the client's choice, as a payload field.
Str(text) == [ kind |-> "string", text |-> text ]

\* const { username, profilePic } = data || {}: a payload that is missing
\* leaves both undefined.
NoPayload == [ username |-> [ kind |-> "undefined", text |-> << >> ],
               profilePic |-> None ]

\* The values a JSON payload field can hold, as [ kind, text ]: a missing
\* field is undefined, a number is written by its decimal digits.
Undefined == [ kind |-> "undefined", text |-> << >> ]
Num(digits) == [ kind |-> "number", text |-> digits ]

\* What `v || fallback` takes for true: not undefined, not '', not 0.
Truthy(v) ==
    CASE v.kind = "undefined" -> FALSE
      [] v.kind = "string" -> v.text # << >>
      [] v.kind = "number" -> v.text # << "0" >>
      [] OTHER -> TRUE

\* The decimal digits of a natural number.
RECURSIVE Digits(_)
Digits(n) ==
    LET d == << "0", "1", "2", "3", "4", "5", "6", "7", "8", "9" >>[(n % 10) + 1]
    IN  IF n < 10 THEN << d >> ELSE Append(Digits(n \div 10), d)

\* The payload of the receive_message emitted for the send_message payload
\* data at time t.
ReceiveMessage(data, t) ==
    << [ text |-> data.text,
         sender |-> Str(<< "o", "t", "h", "e", "r" >>),
         id |-> IF Truthy(data.id) THEN data.id ELSE Num(Digits(t)),
         type |-> IF Truthy(data.type) THEN data.type
                  ELSE Str(<< "t", "e", "x", "t" >>),
         fileContent |-> data.fileContent,
         fileType |-> data.fileType,
         replyTo |-> data.replyTo,
         encrypted |-> data.encrypted ] >>

\* A text message as the client builds it, with the text and the id given.
TextMessage(roomId, text, id) ==
    [ roomId |-> roomId, text |-> Str(text),
      sender |-> Str(<< "u", "s", "e", "r" >>),
      type |-> Str(<< "t", "e", "x", "t" >>), fileContent |-> Undefined,
      fileType |-> Undefined, id |-> id, replyTo |-> Undefined,
      encrypted |-> Undefined ]

\* The text message "hi" with id 1, sent to roomId.
Message(roomId) == TextMessage(roomId, << "h", "i" >>, Num(<< "1" >>))

\* The join_queue payloads explored.
JoinPayloads ==
    { [ username |-> Str(<< "a", "<" >>), profilePic |-> << "pic" >> ],
      NoPayload }

\* ----------------------------------------------------------------- client
\* The useState values of App that its socket handlers and its input
\* handlers read or write, as they are when the component is mounted, and the
\* two timers it keeps: the typing timeout, with the roomId its callback has
\* captured, and the delayed join_queue of handleNext.
ClientInit ==
    [ view |-> "home", isLoading |-> FALSE, roomId |-> None,
      isChatActive |-> FALSE, isPartnerTyping |-> FALSE, showEscModal |-> FALSE,
      partnerName |-> Str(<< "S", "t", "r", "a", "n", "g", "e", "r" >>),
      partnerProfilePic |-> None,
      message |-> << >>, messages |-> << >>,
      typingTimeout |-> None, rejoin |-> FALSE ]

\* ------------------------------------------------------------------- Init
Init ==
    /\ nextId = 1
    /\ live = {}
    /\ waitingQueue = << >>
    /\ activeRooms = << >>
    /\ publicKeys = << >>
    /\ messageCounts = << >>
    /\ socketData = [ c \in Ids |-> [ username |-> None, profilePic |-> None ] ]
    /\ joined = [ c \in Ids |-> {} ]
    /\ now = 0
    /\ created = 0
    /\ last = [ ev |-> "listen", c |-> 0 ]
    /\ out = << >>
    /\ hist = << >>
    /\ client = ClientInit

\* ---------------------------------------------------------------- handlers
\* io.on('connection'): the transport assigns the next unused id.
Connection(c) ==
    /\ c = nextId
    /\ nextId' = nextId + 1
    /\ live' = live \cup { c }
    /\ last' = [ ev |-> "connection", c |-> c ]
    /\ out' = << >>
    /\ UNCHANGED << waitingQueue, activeRooms, publicKeys, messageCounts,
                    socketData, joined, now, created, client >>

\* A room check that never finds the socket.
AlreadyInRoomNever(c) == FALSE

\* A room check that looks at the groups the socket is still in.
AlreadyInRoomStale(c) == joined[c] # {}

\* activeRooms.has(socket.id)
AlreadyInRoom(c) == MapHas(activeRooms, c)

\* A queue check that never finds the socket.
AlreadyInQueueNever(c) == FALSE

\* waitingQueue.find(s => s.id === socket.id)
AlreadyInQueue(c) == InQueue(waitingQueue, c)

\* A match only when two or more are waiting.
QueueHasPartnerOffByOne(q) == Len(q) > 1

\* waitingQueue.length > 0
QueueHasPartner(q) == Len(q) > 0

\* A match that reads the head and leaves it in the queue.
QueueAfterShiftKept(q) == q

\* waitingQueue.shift(): what is left in the queue
QueueAfterShift(q) == Tail(q)

\* socket.on('join_queue')
JoinQueue(c, data) ==
    /\ c \in live
    /\ last' = [ ev |-> "join_queue", c |-> c ]
    /\ socketData' = [ socketData EXCEPT
                         ![c] = [ username |-> sanitizeUsername(data.username),
                                  profilePic |-> data.profilePic ] ]
    /\ IF AlreadyInRoom(c) \/ AlreadyInQueue(c)
       THEN /\ out' = << >>
            /\ UNCHANGED << waitingQueue, activeRooms, joined, created >>
       ELSE IF QueueHasPartner(waitingQueue)
       THEN LET partnerSocket == Head(waitingQueue)
                roomId == RoomId(c, partnerSocket)
            IN  /\ waitingQueue' = QueueAfterShift(waitingQueue)
                /\ created' = created + 1
                /\ joined' = [ joined EXCEPT ![c] = @ \cup { roomId },
                                             ![partnerSocket] = @ \cup { roomId } ]
                /\ activeRooms' = MapSet(MapSet(activeRooms, c, roomId),
                                         partnerSocket, roomId)
                /\ out' = IoTo(c, OwnRoom(c), "chat_start",
                               << roomId, socketData'[partnerSocket].username,
                                  socketData'[partnerSocket].profilePic >>)
                          \o IoTo(c, OwnRoom(partnerSocket), "chat_start",
                                  << roomId, socketData'[c].username,
                                     socketData'[c].profilePic >>)
       ELSE /\ waitingQueue' = Append(waitingQueue, c)
            /\ out' = << >>
            /\ UNCHANGED << activeRooms, joined, created >>
    /\ UNCHANGED << nextId, live, publicKeys, messageCounts, now, client >>

\* A handler that goes on to relay the message it has just rejected.
SendMessageNoReturn(c, data) ==
    /\ c \in live
    /\ last' = [ ev |-> "send_message", c |-> c ]
    /\ LET limit == CheckMessageRateLimit(messageCounts, c, now)
       IN  /\ messageCounts' = limit.counts
           /\ out' = (IF ~limit.allowed
                      THEN SocketEmit(c, "rate_limit_exceeded", None)
                      ELSE << >>)
                     \o SocketTo(c, data.roomId, "receive_message",
                                 ReceiveMessage(data, now))
    /\ UNCHANGED << nextId, live, waitingQueue, activeRooms, publicKeys,
                    socketData, joined, now, created, client >>

\* socket.on('send_message')
SendMessage(c, data) ==
    /\ c \in live
    /\ last' = [ ev |-> "send_message", c |-> c ]
    /\ LET limit == CheckMessageRateLimit(messageCounts, c, now)
       IN  /\ messageCounts' = limit.counts
           /\ IF ~limit.allowed
              THEN out' = SocketEmit(c, "rate_limit_exceeded", None)
              ELSE out' = SocketTo(c, data.roomId, "receive_message",
                                 ReceiveMessage(data, now))
    /\ UNCHANGED << nextId, live, waitingQueue, activeRooms, publicKeys,
                    socketData, joined, now, created, client >>

\* A skip that also destroys the skipping socket's key and rate record.
SkipForgets(c) ==
    /\ c \in live
    /\ last' = [ ev |-> "skip", c |-> c ]
    /\ LET roomId == MapGet(activeRooms, c)
           partnerId == FindPartner(activeRooms, roomId, c)
       IN  IF roomId # None
           THEN /\ out' = SocketTo(c, roomId, "partner_disconnected", None)
                /\ joined' = [ joined EXCEPT ![c] = @ \ { roomId } ]
                /\ activeRooms' =
                     IF partnerId # {}
                     THEN MapDelete(MapDelete(activeRooms, c),
                                    CHOOSE p \in partnerId : TRUE)
                     ELSE MapDelete(activeRooms, c)
           ELSE /\ out' = << >>
                /\ UNCHANGED << activeRooms, joined >>
    /\ waitingQueue' = QueueWithout(waitingQueue, c)
    /\ publicKeys' = MapWithout(publicKeys, c)
    /\ messageCounts' = MapWithout(messageCounts, c)
    /\ UNCHANGED << nextId, live, socketData, now, created, client >>

\* socket.on('skip')
Skip(c) ==
    /\ c \in live
    /\ last' = [ ev |-> "skip", c |-> c ]
    /\ LET roomId == MapGet(activeRooms, c)
           partnerId == FindPartner(activeRooms, roomId, c)
       IN  IF roomId # None
           THEN /\ out' = SocketTo(c, roomId, "partner_disconnected", None)
                /\ joined' = [ joined EXCEPT ![c] = @ \ { roomId } ]
                /\ activeRooms' =
                     IF partnerId # {}
                     THEN MapDelete(MapDelete(activeRooms, c),
                                    CHOOSE p \in partnerId : TRUE)
                     ELSE MapDelete(activeRooms, c)
           ELSE /\ out' = << >>
                /\ UNCHANGED << activeRooms, joined >>
    /\ waitingQueue' = QueueWithout(waitingQueue, c)
    /\ UNCHANGED << nextId, live, publicKeys, messageCounts, socketData, now,
                    created, client >>

\* socket.on('disconnect'): the transport has already taken the socket out of
\* every broadcast group when the handler runs.
Disconnect(c) ==
    /\ c \in live
    /\ last' = [ ev |-> "disconnect", c |-> c ]
    /\ live' = live \ { c }
    /\ waitingQueue' = QueueWithout(waitingQueue, c)
    /\ messageCounts' = MapWithout(messageCounts, c)
    /\ joined' = [ joined EXCEPT ![c] = {} ]
    /\ LET roomId == MapGet(activeRooms, c)
           partnerId == FindPartner(activeRooms, roomId, c)
       IN  IF roomId # None
           THEN /\ out' = SocketTo(c, roomId, "partner_disconnected", None)
                /\ IF partnerId # {}
                   THEN LET p == CHOOSE x \in partnerId : TRUE
                        IN  /\ activeRooms' = MapDelete(MapDelete(activeRooms, c), p)
                            /\ publicKeys' = MapWithout(MapWithout(publicKeys, c), p)
                   ELSE /\ activeRooms' = MapDelete(activeRooms, c)
                        /\ publicKeys' = MapWithout(publicKeys, c)
           ELSE /\ out' = << >>
                /\ publicKeys' = MapWithout(publicKeys, c)
                /\ UNCHANGED activeRooms
    /\ UNCHANGED << nextId, socketData, now, created, client >>

\* A set() that keeps the record a key already has.
MapPutKeepFirst(f, k, v) ==
    [ x \in DOMAIN f \cup { k } |-> IF x \in DOMAIN f THEN f[x] ELSE v ]

\* Map.set on publicKeys
MapPut(f, k, v) == [ x \in DOMAIN f \cup { k } |-> IF x = k THEN v ELSE f[x] ]

\* publicKey && typeof publicKey === 'string': the payload field is
\* [ kind, text ] as for a username; the empty string is falsy.
KeyAccepted(publicKey) == publicKey.kind = "string" /\ publicKey.text # << >>

\* socket.on('exchange_keys')
ExchangeKeys(c, data) ==
    /\ c \in live
    /\ last' = [ ev |-> "exchange_keys", c |-> c ]
    /\ IF KeyAccepted(data.publicKey)
       THEN /\ publicKeys' = MapPut(publicKeys, c, data.publicKey.text)
            /\ LET roomId == MapGet(activeRooms, c)
               IN  out' = IF roomId # None
                          THEN SocketTo(c, roomId, "partner_public_key",
                                        << data.publicKey.text >>)
                          ELSE << >>
       ELSE /\ out' = << >>
            /\ UNCHANGED publicKeys
    /\ UNCHANGED << nextId, live, waitingQueue, activeRooms, messageCounts,
                    socketData, joined, now, created, client >>

\* socket.on('typing')
Typing(c, roomId) ==
    /\ c \in live
    /\ last' = [ ev |-> "typing", c |-> c ]
    /\ out' = SocketTo(c, roomId, "typing", None)
    /\ UNCHANGED << nextId, live, waitingQueue, activeRooms, publicKeys,
                    messageCounts, socketData, joined, now, created, client >>

\* socket.on('stop_typing')
StopTyping(c, roomId) ==
    /\ c \in live
    /\ last' = [ ev |-> "stop_typing", c |-> c ]
    /\ out' = SocketTo(c, roomId, "stop_typing", None)
    /\ UNCHANGED << nextId, live, waitingQueue, activeRooms, publicKeys,
                    messageCounts, socketData, joined, now, created, client >>

\* socket.on('edit_message')
EditMessage(c, roomId, id, text) ==
    /\ c \in live
    /\ last' = [ ev |-> "edit_message", c |-> c ]
    /\ out' = SocketTo(c, roomId, "message_edited", << id, text >>)
    /\ UNCHANGED << nextId, live, waitingQueue, activeRooms, publicKeys,
                    messageCounts, socketData, joined, now, created, client >>

\* socket.on('delete_message')
DeleteMessage(c, roomId, id) ==
    /\ c \in live
    /\ last' = [ ev |-> "delete_message", c |-> c ]
    /\ out' = SocketTo(c, roomId, "message_deleted", << id >>)
    /\ UNCHANGED << nextId, live, waitingQueue, activeRooms, publicKeys,
                    messageCounts, socketData, joined, now, created, client >>

\* `const { roomId } = data` with data undefined throws a TypeError. The
\* handler has no try/catch and neither has the emitter that called it, so
\* the error is an uncaught exception and node ends the process: last records
\* it, and no handler runs afterwards.
UncaughtTypeError(c) ==
    /\ c \in live
    /\ last' = [ ev |-> "uncaughtException", c |-> c ]
    /\ out' = << >>

\* The process has ended on an uncaught exception.
Crashed == last.ev = "uncaughtException"

\* socket.on('exchange_keys') without a payload: line 1228 throws.
ExchangeKeysNoPayload(c) ==
    /\ UncaughtTypeError(c)
    /\ UNCHANGED << nextId, live, waitingQueue, activeRooms, publicKeys,
                    messageCounts, socketData, joined, now, created, client >>

\* socket.on('send_message') without a payload: the rate limiter runs first,
\* and line 1247 throws if it lets the message through.
SendMessageNoPayload(c) ==
    /\ c \in live
    /\ LET limit == CheckMessageRateLimit(messageCounts, c, now)
       IN  /\ messageCounts' = limit.counts
           /\ IF ~limit.allowed
              THEN /\ last' = [ ev |-> "send_message", c |-> c ]
                   /\ out' = SocketEmit(c, "rate_limit_exceeded", None)
              ELSE UncaughtTypeError(c)
    /\ UNCHANGED << nextId, live, waitingQueue, activeRooms, publicKeys,
                    socketData, joined, now, created, client >>

\* socket.on('typing'), socket.on('stop_typing'), socket.on('edit_message')
\* and socket.on('delete_message') without a payload: their first line
\* throws.
RelayNoPayload(c) ==
    /\ UncaughtTypeError(c)
    /\ UNCHANGED << nextId, live, waitingQueue, activeRooms, publicKeys,
                    messageCounts, socketData, joined, now, created, client >>

\* Date.now() moves on between two events.
Tick ==
    /\ now < MaxTicks * TickMs
    /\ now' = now + TickMs
    /\ UNCHANGED << nextId, live, waitingQueue, activeRooms, publicKeys,
                    messageCounts, socketData, joined, created, last, out, hist, client >>

\* ---------------------------------------------------------- client handlers
\* What a handler of the client leaves behind: the new React state, the
\* events it emitted to the server, and its name. The server's state is not
\* the client's to write.
ClientHandler(ev, next, emitted) ==
    /\ client' = next
    /\ out' = emitted
    /\ last' = [ ev |-> ev, c |-> 0 ]
    /\ UNCHANGED << nextId, live, waitingQueue, activeRooms, publicKeys,
                    messageCounts, socketData, joined, now, created >>

\* socketRef.current?.emit(ev, data)
ClientEmit(ev, data) == << [ ev |-> ev, data |-> data ] >>

\* An entry of the messages list: isEdited and isDeleted are undefined, which
\* reads as false, until a handler sets them.
ChatMessage(id, text, sender) ==
    [ id |-> id, text |-> text, sender |-> sender,
      isEdited |-> FALSE, isDeleted |-> FALSE ]

\* { id: Date.now(), text, sender: 'system' }
SystemMessage(text) == ChatMessage(Num(Digits(now)), Str(<< text >>), "system")

\* socket.on('chat_start')
ClientChatStart(data) ==
    ClientHandler("chat_start",
        [ client EXCEPT !.roomId = data.roomId,
                        !.partnerName =
                            IF Truthy(data.partnerName) THEN data.partnerName
                            ELSE Str(<< "S", "t", "r", "a", "n", "g", "e", "r" >>),
                        !.partnerProfilePic = data.partnerProfilePic,
                        !.messages = << >>,
                        !.isLoading = FALSE,
                        !.view = "chat",
                        !.isChatActive = TRUE ],
        << >>)

\* socket.on('receive_message'): [...prev, { ...data, sender: 'other' }]
ClientReceiveMessage(data) ==
    ClientHandler("receive_message",
        [ client EXCEPT !.messages =
            Append(@, ChatMessage(data.id, data.text, "other")) ],
        << >>)

\* prev.map(msg => msg.id === data.id
\*     ? { ...msg, text: data.text, isEdited: true } : msg)
MarkEdited(messages, data) ==
    [ i \in DOMAIN messages |->
        IF messages[i].id = data.id
        THEN [ messages[i] EXCEPT !.text = data.text, !.isEdited = TRUE ]
        ELSE messages[i] ]

\* A filter that takes the deleted message out of the list.
MarkDeletedRemoves(messages, data) ==
    SelectSeq(messages, LAMBDA msg : msg.id # data.id)

\* prev.map(msg => msg.id === data.id ? { ...msg, isDeleted: true } : msg)
MarkDeleted(messages, data) ==
    [ i \in DOMAIN messages |->
        IF messages[i].id = data.id
        THEN [ messages[i] EXCEPT !.isDeleted = TRUE ]
        ELSE messages[i] ]

\* socket.on('message_edited')
ClientMessageEdited(data) ==
    ClientHandler("message_edited",
        [ client EXCEPT !.messages = MarkEdited(@, data) ], << >>)

\* socket.on('message_deleted')
ClientMessageDeleted(data) ==
    ClientHandler("message_deleted",
        [ client EXCEPT !.messages = MarkDeleted(@, data) ], << >>)

\* socket.on('partner_disconnected'): roomId is left as it is.
ClientPartnerDisconnected ==
    ClientHandler("partner_disconnected",
        [ client EXCEPT !.messages =
                            Append(@, SystemMessage("Stranger has disconnected.")),
                        !.isChatActive = FALSE,
                        !.isPartnerTyping = FALSE ],
        << >>)

\* socket.on('typing')
ClientTyping ==
    ClientHandler("typing", [ client EXCEPT !.isPartnerTyping = TRUE ], << >>)

\* socket.on('stop_typing')
ClientStopTyping ==
    ClientHandler("stop_typing", [ client EXCEPT !.isPartnerTyping = FALSE ], << >>)

\* The home view is on the screen, with its button.
HomeShown == client.view = "home"

\* The chat view is on the screen with its input bar: view === 'chat' and
\* not isLoading (lines 559-561). The text input is disabled by isRecording
\* only (line 950), and a recording is not modelled.
InputShown == client.view = "chat" /\ ~client.isLoading

\* handleFindSomeone, with a username that is not blank
handleFindSomeone ==
    /\ HomeShown
    /\ ClientHandler("handleFindSomeone",
          [ client EXCEPT !.isLoading = TRUE, !.view = "chat" ],
          ClientEmit("join_queue", None))

\* handleInputChange: the input's onChange (line 947)
handleInputChange(text) ==
    /\ InputShown
    /\ IF client.roomId # None
       THEN ClientHandler("handleInputChange",
               [ client EXCEPT !.message = text,
                               !.typingTimeout = client.roomId ],
               ClientEmit("typing", client.roomId))
       ELSE ClientHandler("handleInputChange",
               [ client EXCEPT !.message = text ], << >>)

\* The callback of the typing timeout (lines 242-244), with the roomId of the
\* render that set it.
TypingTimeoutFires ==
    /\ client.typingTimeout # None
    /\ ClientHandler("typingTimeout",
          [ client EXCEPT !.typingTimeout = None ],
          ClientEmit("stop_typing", client.typingTimeout))

\* handleSendMessage, called by the Enter key in the input (lines 951-956);
\* the form's submit button is disabled while the chat is not active, the
\* key handler is not.
handleSendMessage ==
    /\ InputShown
    /\ IF Trim(client.message) # << >> /\ client.roomId # None
       THEN LET id == Num(Digits(now))
            IN  ClientHandler("handleSendMessage",
                   [ client EXCEPT
                       !.messages = Append(@, ChatMessage(id, Str(client.message),
                                                          "user")),
                       !.message = << >> ],
                   ClientEmit("send_message",
                              TextMessage(client.roomId, client.message, id))
                     \o ClientEmit("stop_typing", client.roomId))
       ELSE ClientHandler("handleSendMessage", client, << >>)

\* handleNext: the New Chat and skip buttons of the chat view
handleNext ==
    /\ InputShown
    /\ ClientHandler("handleNext",
          [ client EXCEPT !.isLoading = TRUE, !.roomId = None,
                          !.showEscModal = FALSE, !.isChatActive = FALSE,
                          !.rejoin = TRUE ],
          ClientEmit("skip", None))

\* The inner callback of handleNext's timeouts (lines 255-259)
RejoinTimeoutFires ==
    /\ client.rejoin
    /\ ClientHandler("rejoinTimeout", [ client EXCEPT !.rejoin = FALSE ],
                     ClientEmit("join_queue", None))

\* The Escape key while the chat view is shown (lines 185-190)
EscapeKey ==
    /\ client.view = "chat"
    /\ ClientHandler("Escape", [ client EXCEPT !.showEscModal = ~@ ], << >>)

\* handleQuit: the button of the Escape dialog, which is drawn over the chat
\* view
handleQuit ==
    /\ InputShown
    /\ client.showEscModal
    /\ ClientHandler("handleQuit",
          [ client EXCEPT !.roomId = None, !.isChatActive = FALSE,
                          !.messages =
                              Append(@, SystemMessage("You have disconnected.")),
                          !.showEscModal = FALSE ],
          ClientEmit("skip", None))

\* The Home button under the ended chat (lines 984-999)
HomeButton ==
    /\ InputShown
    /\ ~client.isChatActive
    /\ ClientHandler("Home", [ client EXCEPT !.view = "home" ], << >>)

\* ----------------------------------------------------------- specifications
\* The roomId values worth sending: a name no connected socket is grouped
\* under reaches nobody, exactly as None does.
Payloads == { r \in RoomNames : Members(r) # {} } \cup { None }

OnConnection == nextId <= NumConns /\ Connection(nextId) /\ UNCHANGED hist

\* Joins are explored until MaxRooms rooms have been created, each with the
\* same payload; SpecTrace varies the payload.
OnJoinQueue ==
    /\ created < MaxRooms
    /\ \E c \in live : JoinQueue(c, NoPayload)
    /\ UNCHANGED hist

\* With the clock standing still, Spec follows a message sent while no rate
\* record exists; SpecRate follows the records up to the limit.
OnSendMessage ==
    /\ DOMAIN messageCounts = {}
    /\ \E c \in live, roomId \in Payloads : SendMessage(c, Message(roomId))
    /\ UNCHANGED hist

OnSkip == (\E c \in live : Skip(c)) /\ UNCHANGED hist

OnDisconnect == (\E c \in live : Disconnect(c)) /\ UNCHANGED hist

\* The coordinator with the clock standing still.
Next == OnConnection \/ OnJoinQueue \/ OnSendMessage \/ OnSkip \/ OnDisconnect

Spec == Init /\ [][Next]_vars

LifeConnection == OnConnection
LifeJoinQueue == OnJoinQueue
LifeSkip == OnSkip
LifeDisconnect == OnDisconnect

\* The handlers that write the queue and the registry. send_message reads
\* and writes neither (its UNCHANGED), so the steps of these handlers are the
\* same here as in Spec.
NextLife == LifeConnection \/ LifeJoinQueue \/ LifeSkip \/ LifeDisconnect

SpecLife == Init /\ [][NextLife]_vars

\* The two sockets of the rate-limiter specification.
RateIds == { 1, 2 }

RateConnection == nextId \in RateIds /\ Connection(nextId) /\ UNCHANGED hist

RateJoinQueue ==
    /\ \E c \in live : JoinQueue(c, NoPayload)
    /\ UNCHANGED hist

RateSendMessage ==
    /\ \E c \in live, roomId \in Payloads : SendMessage(c, Message(roomId))
    /\ UNCHANGED hist

RateDisconnect == (\E c \in live : Disconnect(c)) /\ UNCHANGED hist

RateTick == Tick

\* Two sockets, the running clock and the rate limiter at full depth.
NextRate ==
    \/ RateConnection
    \/ RateJoinQueue
    \/ RateSendMessage
    \/ RateDisconnect
    \/ RateTick

SpecRate == Init /\ [][NextRate]_vars

\* The events of one run in the order the event loop handled them.
Handled(ev, c) == hist' = Append(hist, [ ev |-> ev, c |-> c ])

TraceConnection == nextId <= NumConns /\ Connection(nextId) /\ UNCHANGED hist

TraceJoinQueue ==
    /\ Len(hist) < MaxHist
    /\ \E c \in live, data \in JoinPayloads :
          JoinQueue(c, data) /\ Handled("join_queue", c)

TraceSkip ==
    /\ Len(hist) < MaxHist
    /\ \E c \in live : Skip(c) /\ Handled("skip", c)

\* Runs of at most MaxHist client events, remembered in hist.
NextTrace == TraceConnection \/ TraceJoinQueue \/ TraceSkip

SpecTrace == Init /\ [][NextTrace]_vars

\* The three sockets of the key-exchange specification.
KeyIds == { 1, 2, 3 }

\* The exchange_keys payloads explored: two keys, the empty string, and a
\* payload without a publicKey.
KeyPayloads ==
    { [ publicKey |-> Str(<< "k1" >>) ],
      [ publicKey |-> Str(<< "k2" >>) ],
      [ publicKey |-> Str(<< >>) ],
      [ publicKey |-> [ kind |-> "undefined", text |-> << >> ] ] }

\* SpecKeys and SpecRelay keep in hist the event being handled, with its
\* payload, and nothing once an event without a payload of interest is handled.
Received(ev, c, data) == hist' = << [ ev |-> ev, c |-> c, data |-> data ] >>

KeysConnection == nextId \in KeyIds /\ Connection(nextId) /\ hist' = << >>

KeysJoinQueue ==
    /\ created < MaxRooms
    /\ \E c \in live : JoinQueue(c, NoPayload)
    /\ hist' = << >>

KeysExchangeKeys ==
    \E c \in live, data \in KeyPayloads :
        ExchangeKeys(c, data) /\ Received("exchange_keys", c, data)

KeysSkip == (\E c \in live : Skip(c)) /\ hist' = << >>

KeysDisconnect == (\E c \in live : Disconnect(c)) /\ hist' = << >>

\* Three sockets and the key relay.
NextKeys ==
    \/ KeysConnection
    \/ KeysJoinQueue
    \/ KeysExchangeKeys
    \/ KeysSkip
    \/ KeysDisconnect

SpecKeys == Init /\ [][NextKeys]_vars

CleanupConnection == nextId \in KeyIds /\ Connection(nextId) /\ UNCHANGED hist

CleanupJoinQueue ==
    /\ created < MaxRooms
    /\ \E c \in live : JoinQueue(c, NoPayload)
    /\ UNCHANGED hist

CleanupExchangeKeys ==
    /\ \E c \in live : ExchangeKeys(c, [ publicKey |-> Str(<< "k1" >>) ])
    /\ UNCHANGED hist

\* A message that opens a rate record, while there is none.
CleanupSendMessage ==
    /\ DOMAIN messageCounts = {}
    /\ \E c \in live : SendMessage(c, Message(None))
    /\ UNCHANGED hist

CleanupSkip == (\E c \in live : Skip(c)) /\ UNCHANGED hist

CleanupDisconnect == (\E c \in live : Disconnect(c)) /\ UNCHANGED hist

\* Three sockets and the four collections, each of them written and cleaned.
NextCleanup ==
    \/ CleanupConnection
    \/ CleanupJoinQueue
    \/ CleanupExchangeKeys
    \/ CleanupSendMessage
    \/ CleanupSkip
    \/ CleanupDisconnect

SpecCleanup == Init /\ [][NextCleanup]_vars

\* The message ids and texts a client sends with an edit or a delete.
MessageIds == { << "m1" >>, << "m2" >> }
MessageTexts == { << "x" >> }

\* SpecRelay keeps in hist the relayed event being handled, with its payload.
RelayConnection == nextId <= NumConns /\ Connection(nextId) /\ hist' = << >>

RelayJoinQueue ==
    /\ created < MaxRooms
    /\ \E c \in live : JoinQueue(c, NoPayload)
    /\ hist' = << >>

RelaySkip == (\E c \in live : Skip(c)) /\ hist' = << >>

RelayTyping ==
    \E c \in live, roomId \in Payloads :
        /\ Typing(c, roomId)
        /\ Received("typing", c, [ roomId |-> roomId ])

RelayStopTyping ==
    \E c \in live, roomId \in Payloads :
        /\ StopTyping(c, roomId)
        /\ Received("stop_typing", c, [ roomId |-> roomId ])

RelayEditMessage ==
    \E c \in live, roomId \in Payloads, id \in MessageIds, text \in MessageTexts :
        /\ EditMessage(c, roomId, id, text)
        /\ Received("edit_message", c, [ roomId |-> roomId, id |-> id, text |-> text ])

RelayDeleteMessage ==
    \E c \in live, roomId \in Payloads, id \in MessageIds :
        /\ DeleteMessage(c, roomId, id)
        /\ Received("delete_message", c, [ roomId |-> roomId, id |-> id ])

\* The relays that carry no rate limit, with the rooms they are sent to.
NextRelay ==
    \/ RelayConnection
    \/ RelayJoinQueue
    \/ RelaySkip
    \/ RelayTyping
    \/ RelayStopTyping
    \/ RelayEditMessage
    \/ RelayDeleteMessage

SpecRelay == Init /\ [][NextRelay]_vars

\* The end-to-end run: A is socket 1, B is socket 2. Both connect, A joins,
\* B joins, A sends "hi", A sends one message more than the limit allows in a
\* window, A skips, A joins again.
Burst == MESSAGE_RATE_LIMIT + 1

RunScript ==
    << [ ev |-> "connection", c |-> 1, text |-> << >>, id |-> Undefined ],
       [ ev |-> "connection", c |-> 2, text |-> << >>, id |-> Undefined ],
       [ ev |-> "join_queue", c |-> 1, text |-> << >>, id |-> Undefined ],
       [ ev |-> "join_queue", c |-> 2, text |-> << >>, id |-> Undefined ],
       [ ev |-> "send_message", c |-> 1, text |-> << "h", "i" >>,
         id |-> Num(<< "h" >>) ] >>
    \o [ k \in 1 .. Burst |->
           [ ev |-> "send_message", c |-> 1, text |-> << "m" >>,
             id |-> Num(Digits(k)) ] ]
    \o << [ ev |-> "skip", c |-> 1, text |-> << >>, id |-> Undefined ],
          [ ev |-> "join_queue", c |-> 1, text |-> << >>, id |-> Undefined ] >>

\* The number of script events handled so far.
RunPc == Cardinality({ i \in DOMAIN hist : hist[i].dir = "in" })

\* SpecRun keeps in hist the events of the run in order: each inbound event
\* with its place n in the script and its time, followed by the outbound
\* events its handler emitted.
Logged(n) ==
    hist' = hist
            \o << [ dir |-> "in", n |-> n, ev |-> RunScript[n].ev,
                    c |-> RunScript[n].c, at |-> now, data |-> << >> ] >>
            \o [ i \in DOMAIN out' |->
                   [ dir |-> "out", n |-> n, ev |-> out'[i].ev, c |-> out'[i].to,
                     at |-> now, data |-> out'[i].data ] ]

\* The next event of the script is ev.
RunAt(ev) == RunPc < Len(RunScript) /\ RunScript[RunPc + 1].ev = ev

RunConnection ==
    /\ RunAt("connection")
    /\ Connection(RunScript[RunPc + 1].c)
    /\ Logged(RunPc + 1)

RunJoinQueue ==
    /\ RunAt("join_queue")
    /\ JoinQueue(RunScript[RunPc + 1].c, NoPayload)
    /\ Logged(RunPc + 1)

\* The client sends the roomId it got with chat_start.
RunSendMessage ==
    /\ RunAt("send_message")
    /\ LET e == RunScript[RunPc + 1]
       IN  SendMessage(e.c, TextMessage(MapGet(activeRooms, e.c), e.text, e.id))
    /\ Logged(RunPc + 1)

RunSkip ==
    /\ RunAt("skip")
    /\ Skip(RunScript[RunPc + 1].c)
    /\ Logged(RunPc + 1)

RunTick == Tick

\* The script, with the clock free to move between any two of its events.
NextRun ==
    \/ RunConnection
    \/ RunJoinQueue
    \/ RunSendMessage
    \/ RunSkip
    \/ RunTick

SpecRun == Init /\ [][NextRun]_vars

\* The events a client can send with no payload at all; the handlers run
\* while the process does.
MissingConnection ==
    ~Crashed /\ nextId <= NumConns /\ Connection(nextId) /\ UNCHANGED hist

\* join_queue without a payload: `data || {}` makes it the empty payload.
MissingJoinQueue ==
    /\ ~Crashed
    /\ created < MaxRooms
    /\ \E c \in live : JoinQueue(c, NoPayload)
    /\ UNCHANGED hist

MissingExchangeKeys ==
    ~Crashed /\ (\E c \in live : ExchangeKeysNoPayload(c)) /\ UNCHANGED hist

MissingSendMessage ==
    ~Crashed /\ (\E c \in live : SendMessageNoPayload(c)) /\ UNCHANGED hist

MissingRelay ==
    ~Crashed /\ (\E c \in live : RelayNoPayload(c)) /\ UNCHANGED hist

MissingSkip == ~Crashed /\ (\E c \in live : Skip(c)) /\ UNCHANGED hist

MissingDisconnect ==
    ~Crashed /\ (\E c \in live : Disconnect(c)) /\ UNCHANGED hist

\* The coordinator fed with events that carry no payload.
NextMissing ==
    \/ MissingConnection
    \/ MissingJoinQueue
    \/ MissingExchangeKeys
    \/ MissingSendMessage
    \/ MissingRelay
    \/ MissingSkip
    \/ MissingDisconnect

SpecMissing == Init /\ [][NextMissing]_vars

\* The character ch, n times.
Repeat(ch, n) == [ i \in 1 .. n |-> ch ]

\* The usernames explored: no username, a number, and strings made of a run
\* of one character, bare or between blanks, or followed by markup.
NameInputs ==
    { Undefined, Num(<< "7" >>) }
    \cup { Str(Repeat(ch, n)) :
             ch \in { "a", "<", ">", "&", "dquote", " ", "tab" }, n \in 0 .. MaxName }
    \cup { Str(<< " " >> \o Repeat(ch, n) \o << "newline", " " >>) :
             ch \in { "a", "<" }, n \in 0 .. MaxName }
    \cup { Str(Repeat("a", n) \o << "<", "b", ">" >>) : n \in 0 .. MaxName }

\* The socket of the username specification.
NameIds == { 1 }

NamesConnection == nextId \in NameIds /\ Connection(nextId) /\ hist' = << >>

NamesJoinQueue ==
    \E c \in live, username \in NameInputs :
        LET data == [ username |-> username, profilePic |-> None ]
        IN  JoinQueue(c, data) /\ Received("join_queue", c, data)

NamesSkip == (\E c \in live : Skip(c)) /\ hist' = << >>

\* One socket joining under every username explored.
NextNames == NamesConnection \/ NamesJoinQueue \/ NamesSkip

SpecNames == Init /\ [][NextNames]_vars

\* The waiting queues without a socket twice, over the sockets in ids.
QueuesOver(ids) ==
    { q \in UNION { [ 1 .. n -> ids ] : n \in 0 .. Cardinality(ids) } :
        \A i, k \in DOMAIN q : q[i] = q[k] => i = k }

\* The removal from the queue is a function of the queue and the socket id
\* alone. The handlers never leave more than one socket waiting, so to see
\* the removal at work on longer queues it is applied to every queue of
\* connected sockets, not only to those a run can build.
InitQueue ==
    /\ nextId = NumConns + 1
    /\ live = Ids
    /\ waitingQueue \in QueuesOver(Ids)
    /\ activeRooms = << >>
    /\ publicKeys = << >>
    /\ messageCounts = << >>
    /\ socketData = [ c \in Ids |-> [ username |-> Anonymous, profilePic |-> None ] ]
    /\ joined = [ c \in Ids |-> {} ]
    /\ now = 0
    /\ created = 0
    /\ last = [ ev |-> "listen", c |-> 0 ]
    /\ out = << >>
    /\ hist = << >>
    /\ client = ClientInit

\* SpecQueue keeps in hist the event being handled with the queue it found.
QueueSkip ==
    \E c \in live : Skip(c) /\ Received("skip", c, waitingQueue)

QueueDisconnect ==
    \E c \in live : Disconnect(c) /\ Received("disconnect", c, waitingQueue)

NextQueue == QueueSkip \/ QueueDisconnect

SpecQueue == InitQueue /\ [][NextQueue]_vars

\* The send_message payloads explored, all to roomId: the id missing, 0, 7
\* or a string; the type missing or "file"; the other fields missing or
\* present.
MessagePayloads(roomId) ==
    { [ roomId |-> roomId, text |-> Str(<< "h", "i" >>), sender |-> Str(<< "m", "e" >>),
        type |-> type, fileContent |-> rest, fileType |-> rest, id |-> id,
        replyTo |-> rest, encrypted |-> rest ] :
        id \in { Undefined, Num(<< "0" >>), Num(<< "7" >>), Str(<< "m", "1" >>) },
        type \in { Undefined, Str(<< "f", "i", "l", "e" >>) },
        rest \in { Undefined, Str(<< "x" >>) } }

MessageConnection == nextId \in RateIds /\ Connection(nextId) /\ hist' = << >>

MessageJoinQueue ==
    /\ created < MaxRooms
    /\ \E c \in live : JoinQueue(c, NoPayload)
    /\ hist' = << >>

\* The first message of each socket, sent to the room the socket is in.
MessageSendMessage ==
    \E c \in live :
        /\ c \notin DOMAIN messageCounts
        /\ \E data \in MessagePayloads(MapGet(activeRooms, c)) :
              SendMessage(c, data) /\ Received("send_message", c, data)

MessageTick == Tick

\* Two sockets and the fields of the messages they send.
NextMessage ==
    \/ MessageConnection
    \/ MessageJoinQueue
    \/ MessageSendMessage
    \/ MessageTick

SpecMessage == Init /\ [][NextMessage]_vars

\* One socket more than in Spec, so that two rooms can be open at a time.
PairIds == 1 .. NumConns + 1

InitPairs ==
    /\ nextId = 1
    /\ live = {}
    /\ waitingQueue = << >>
    /\ activeRooms = << >>
    /\ publicKeys = << >>
    /\ messageCounts = << >>
    /\ socketData = [ c \in PairIds |-> [ username |-> None, profilePic |-> None ] ]
    /\ joined = [ c \in PairIds |-> {} ]
    /\ now = 0
    /\ created = 0
    /\ last = [ ev |-> "listen", c |-> 0 ]
    /\ out = << >>
    /\ hist = << >>
    /\ client = ClientInit

PairsConnection == nextId \in PairIds /\ Connection(nextId) /\ UNCHANGED hist

PairsJoinQueue ==
    /\ created < MaxRooms
    /\ \E c \in live : JoinQueue(c, NoPayload)
    /\ UNCHANGED hist

PairsSkip == (\E c \in live : Skip(c)) /\ UNCHANGED hist

\* Pairing and skipping with enough sockets for two rooms at a time.
NextPairs == PairsConnection \/ PairsJoinQueue \/ PairsSkip

SpecPairs == InitPairs /\ [][NextPairs]_vars

\* The socket of the burst specification.
BurstIds == { 1 }

BurstConnection == nextId \in BurstIds /\ Connection(nextId) /\ UNCHANGED hist

\* hist keeps the times at which the socket's messages were admitted.
BurstSendMessage ==
    \E c \in live :
        /\ SendMessage(c, Message(None))
        /\ hist' = IF CheckMessageRateLimit(messageCounts, c, now).allowed
                   THEN Append(hist, now)
                   ELSE hist

BurstTick == Tick

\* One socket sending as fast and for as long as the clock allows.
NextBurst == BurstConnection \/ BurstSendMessage \/ BurstTick

SpecBurst == Init /\ [][NextBurst]_vars

\* The client is the first socket; the rooms the server can put it in.
ClientRooms == { RoomId(2, 1), RoomId(1, 3) }

\* The chat_start payloads the server sends to the client.
ChatStarts ==
    { [ roomId |-> r, partnerName |-> n, partnerProfilePic |-> None ] :
        r \in ClientRooms, n \in { Undefined, Str(<< "b", "o", "b" >>) } }

\* What the user types into the input.
ClientTexts == { << >>, << " " >>, << "h", "i" >> }

\* SpecClient keeps in hist the last event the client got from the server.
Heard(ev) == hist' = << [ ev |-> ev ] >>

SessionFindSomeone == handleFindSomeone /\ UNCHANGED hist

\* The server answers a join_queue that is on its way or waiting.
SessionChatStart ==
    /\ client.isLoading
    /\ ~client.rejoin
    /\ \E data \in ChatStarts : ClientChatStart(data)
    /\ Heard("chat_start")

\* The partner skips or disconnects while the chat is on.
SessionPartnerDisconnected ==
    /\ client.isChatActive
    /\ ClientPartnerDisconnected
    /\ Heard("partner_disconnected")

SessionTyping == client.isChatActive /\ ClientTyping /\ Heard("typing")

SessionStopTyping == client.isChatActive /\ ClientStopTyping /\ Heard("stop_typing")

SessionInputChange == (\E text \in ClientTexts : handleInputChange(text)) /\ UNCHANGED hist

SessionEnterKey ==
    /\ Len(client.messages) < MaxShown
    /\ handleSendMessage
    /\ UNCHANGED hist

SessionTypingTimeout == TypingTimeoutFires /\ UNCHANGED hist

SessionNext == handleNext /\ UNCHANGED hist

SessionRejoinTimeout == RejoinTimeoutFires /\ UNCHANGED hist

SessionEscapeKey == EscapeKey /\ UNCHANGED hist

SessionQuit ==
    /\ Len(client.messages) < MaxShown
    /\ handleQuit
    /\ UNCHANGED hist

SessionHome == HomeButton /\ UNCHANGED hist

\* One client: what its user does and what the server tells it.
NextClient ==
    \/ SessionFindSomeone
    \/ SessionChatStart
    \/ SessionPartnerDisconnected
    \/ SessionTyping
    \/ SessionStopTyping
    \/ SessionInputChange
    \/ SessionEnterKey
    \/ SessionTypingTimeout
    \/ SessionNext
    \/ SessionRejoinTimeout
    \/ SessionEscapeKey
    \/ SessionQuit
    \/ SessionHome

SpecClient == Init /\ [][NextClient]_vars

\* The ids of the messages the partner sends, and of the edits and deletions
\* it sends: a number, the string of the same digits, and the id the client
\* gives its own messages while its clock stands still.
PartnerMessageIds == { Num(<< "7" >>), Str(<< "7" >>) }
EditedIds == PartnerMessageIds \cup { Num(Digits(0)) }

\* The receive_message payloads the server relays from the partner.
PartnerMessages ==
    { ReceiveMessage(TextMessage(r, << "y", "o" >>, id), 0)[1] :
        r \in ClientRooms, id \in PartnerMessageIds }

ListFindSomeone == handleFindSomeone /\ hist' = << >>

ListChatStart ==
    /\ client.isLoading
    /\ ClientChatStart([ roomId |-> RoomId(2, 1), partnerName |-> Undefined,
                         partnerProfilePic |-> None ])
    /\ hist' = << >>

ListReceiveMessage ==
    /\ client.isChatActive
    /\ Len(client.messages) < MaxShown
    /\ \E data \in PartnerMessages : ClientReceiveMessage(data)
    /\ hist' = << >>

ListInputChange == handleInputChange(<< "h", "i" >>) /\ hist' = << >>

ListEnterKey ==
    /\ Len(client.messages) < MaxShown
    /\ handleSendMessage
    /\ hist' = << >>

ListMessageEdited ==
    \E id \in EditedIds :
        LET data == [ id |-> id, text |-> Str(<< "e", "d" >>) ]
        IN  ClientMessageEdited(data) /\ Received("message_edited", 0, data)

ListMessageDeleted ==
    \E id \in EditedIds :
        LET data == [ id |-> id ]
        IN  ClientMessageDeleted(data) /\ Received("message_deleted", 0, data)

\* The message list of one client: its own messages, the partner's, and the
\* partner's edits and deletions.
NextList ==
    \/ ListFindSomeone
    \/ ListChatStart
    \/ ListReceiveMessage
    \/ ListInputChange
    \/ ListEnterKey
    \/ ListMessageEdited
    \/ ListMessageDeleted

SpecList == Init /\ [][NextList]_vars

\* ------------------------------------------------------------ vocabulary
\* The states of section 4.4, read off the collections.
Entry(m, c) == \E i \in DOMAIN m : m[i].id = c
Paired(c) == Entry(activeRooms, c)
Queued(c) == \E i \in DOMAIN waitingQueue : waitingQueue[i] = c
Idle(c) == ~Paired(c) /\ ~Queued(c)

\* The connections the Room Registry maps to a room of c, c excluded.
PartnersOf(m, c) ==
    { m[k].id : k \in { k \in DOMAIN m :
                          /\ m[k].id # c
                          /\ \E i \in DOMAIN m :
                                m[i].id = c /\ m[i].room = m[k].room } }

\* The positions of the outbound events named ev in a handler's output.
Emitted(o, ev) == { i \in DOMAIN o : o[i].ev = ev }

\* The handler that ran in this step is the one for ev, on behalf of c.
Handles(ev, c) == last' = [ ev |-> ev, c |-> c ]

\* --------------------------------------------------------------------- C1
\* C1: no connection has more than one Room Registry entry, every room id in
\* the registry is mapped by exactly two distinct connections, and no
\* connection is paired with itself.
C1_RoomsHaveTwoMembers ==
    /\ \A i, k \in DOMAIN activeRooms :
         activeRooms[i].id = activeRooms[k].id => i = k
    /\ \A i \in DOMAIN activeRooms :
         /\ Cardinality({ k \in DOMAIN activeRooms :
                            activeRooms[k].room = activeRooms[i].room }) = 2
         /\ activeRooms[i].id \notin PartnersOf(activeRooms, activeRooms[i].id)
         /\ Cardinality(PartnersOf(activeRooms, activeRooms[i].id)) = 1

\* A second room has just been opened after the first one was dissolved.
C1_Witness ==
    /\ last.ev = "join_queue"
    /\ Emitted(out, "chat_start") # {}
    /\ created = 2
    /\ Len(activeRooms) = 2

\* --------------------------------------------------------------------- C2
\* C2: a join_queue from an Idle connection that finds the queue non-empty
\* pairs the joiner with the head of the queue (the longest waiting one) and
\* takes the head off the queue; it is appended at the tail only when the
\* queue is empty.
C2_FifoMatching ==
    [][ \A c \in Ids :
          (Handles("join_queue", c) /\ Idle(c)) =>
             IF waitingQueue # << >>
             THEN /\ waitingQueue' = Tail(waitingQueue)
                  /\ Entry(activeRooms', c)
                  /\ PartnersOf(activeRooms', c) = { Head(waitingQueue) }
                  /\ { out'[i].to : i \in Emitted(out', "chat_start") }
                       = { c, Head(waitingQueue) }
             ELSE /\ waitingQueue' = << c >>
                  /\ activeRooms' = activeRooms
                  /\ out' = << >> ]_vars

\* A joiner has just been matched with the connection that was waiting.
C2_Witness ==
    /\ last.ev = "join_queue"
    /\ Paired(last.c)
    /\ Len(out) = 2
    /\ waitingQueue = << >>

\* --------------------------------------------------------------------- C3
\* C3: a send_message from a connection without a Room Registry entry never
\* makes a receive_message reach any connection, whatever roomId it carries.
C3_UnpairedSendDeliversNothing ==
    \A i \in Emitted(out, "receive_message") : Paired(out[i].from)

\* --------------------------------------------------------------------- C4
\* C4: every receive_message caused by a Paired sender reaches exactly the
\* connection the Room Registry records as the sender's partner, for every
\* roomId in the payload.
C4_DeliveredToPartnerOnly ==
    \A i \in Emitted(out, "receive_message") :
        Paired(out[i].from) => out[i].to \in PartnersOf(activeRooms, out[i].from)

\* --------------------------------------------------------------------- C5
\* C5: with A alone in the queue, two join_queue events from the Idle
\* connections B and C, handled in either order, pair the first one handled
\* with A and leave the other Queued; A is in one room only.
C5_OneWinner ==
    \A a, b, c \in Ids :
        (/\ Cardinality({ a, b, c }) = 3
         /\ hist = << [ ev |-> "join_queue", c |-> a ],
                      [ ev |-> "join_queue", c |-> b ],
                      [ ev |-> "join_queue", c |-> c ] >>)
        => /\ PartnersOf(activeRooms, a) = { b }
           /\ PartnersOf(activeRooms, b) = { a }
           /\ { activeRooms[i].id : i \in DOMAIN activeRooms } = { a, b }
           /\ waitingQueue = << c >>

\* The three joins have been handled, the later two in the order 3 then 2.
C5_Witness ==
    hist = << [ ev |-> "join_queue", c |-> 1 ],
              [ ev |-> "join_queue", c |-> 3 ],
              [ ev |-> "join_queue", c |-> 2 ] >>

\* --------------------------------------------------------------------- C6
\* C6: every live connection is in exactly one of Idle, Queued, Paired: no
\* identity is in waitingQueue twice and no connection in waitingQueue has
\* an activeRooms entry; the queue and the registry hold live connections.
C6_OneStatePerConnection ==
    /\ \A i, k \in DOMAIN waitingQueue : waitingQueue[i] = waitingQueue[k] => i = k
    /\ \A c \in Ids : ~(Queued(c) /\ Paired(c))
    /\ \A c \in Ids : (Queued(c) \/ Paired(c)) => c \in live

\* One connection waits while two others are in a room.
C6_Witness ==
    /\ Len(waitingQueue) = 1
    /\ Len(activeRooms) = 2
    /\ last.ev = "join_queue"
    /\ Queued(last.c)

\* --------------------------------------------------------------------- C7
\* C7: right after a skip or a disconnect by a Paired connection c with
\* partner p, neither c nor p has a Room Registry entry and c is not in the
\* waiting queue; no room is ever left mapped by one member only.
C7_DissolveBothSides ==
    [][ /\ \A c \in Ids :
             ((Handles("skip", c) \/ Handles("disconnect", c)) /\ Paired(c)) =>
                /\ ~Entry(activeRooms', c)
                /\ PartnersOf(activeRooms, c) # {}
                /\ \A p \in PartnersOf(activeRooms, c) :
                     /\ ~Entry(activeRooms', p)
                     /\ PartnersOf(activeRooms', p) = {}
                /\ \A i \in DOMAIN waitingQueue' : waitingQueue'[i] # c
        /\ \A i \in DOMAIN activeRooms' :
             PartnersOf(activeRooms', activeRooms'[i].id) # {} ]_vars

\* A Paired connection has just skipped: its partner was told, and the
\* registry is empty.
C7_Witness ==
    /\ last.ev = "skip"
    /\ Emitted(out, "partner_disconnected") # {}
    /\ activeRooms = << >>

\* --------------------------------------------------------------------- C8
\* C8: a skip or disconnect by a Paired connection delivers exactly one
\* partner_disconnected, to its partner of that moment, and nothing to anyone
\* else; a skip or disconnect by an unpaired connection delivers nothing.
C8_PartnerToldOnce ==
    [][ \A c \in Ids :
          (Handles("skip", c) \/ Handles("disconnect", c)) =>
             IF Paired(c)
             THEN /\ Len(out') = 1
                  /\ out'[1].ev = "partner_disconnected"
                  /\ { out'[1].to } = PartnersOf(activeRooms, c)
             ELSE out' = << >> ]_vars

\* A Paired connection has just disconnected and its partner was told.
C8_Witness ==
    /\ last.ev = "disconnect"
    /\ Emitted(out, "partner_disconnected") # {}
    /\ last.c \notin live

\* --------------------------------------------------------------------- C9
\* C9: with L = 10 and W = 1000 ms, a send_message inside the window of its
\* connection's record is admitted while fewer than L were counted, and
\* counted; it is rejected once L were counted; the first send_message after
\* the window (or without a record) is admitted and opens a window of count 1
\* that ends at now + W.
C9_FixedWindow ==
    [][ \A c \in Ids :
          (Handles("send_message", c) /\ now' = now) =>
             LET rejected == Emitted(out', "rate_limit_exceeded") # {}
                 inWindow == c \in DOMAIN messageCounts
                             /\ now <= messageCounts[c].resetTime
             IN  IF inWindow /\ messageCounts[c].count < 10
                 THEN /\ ~rejected
                      /\ messageCounts'[c] =
                           [ count |-> messageCounts[c].count + 1,
                             resetTime |-> messageCounts[c].resetTime ]
                 ELSE IF inWindow
                 THEN rejected /\ messageCounts[c].count = 10
                 ELSE /\ ~rejected
                      /\ messageCounts'[c] =
                           [ count |-> 1, resetTime |-> now + 1000 ] ]_vars

\* After an earlier window was used up, a message has opened a new one.
C9_Witness ==
    /\ last.ev = "send_message"
    /\ now > 1000
    /\ last.c \in DOMAIN messageCounts
    /\ messageCounts[last.c] = [ count |-> 1, resetTime |-> now + 1000 ]
    /\ \E d \in DOMAIN messageCounts : messageCounts[d].count = 10

\* -------------------------------------------------------------------- C10
\* C10: a send_message the rate limiter rejects makes the handler emit one
\* rate_limit_exceeded, to the sender, and nothing else to anyone.
C10_RejectionToSenderOnly ==
    [][ \A c \in Ids :
          (/\ Handles("send_message", c)
           /\ now' = now
           /\ c \in DOMAIN messageCounts
           /\ now <= messageCounts[c].resetTime
           /\ messageCounts[c].count >= 10) =>
             /\ Len(out') = 1
             /\ out'[1].ev = "rate_limit_exceeded"
             /\ out'[1].to = c ]_vars

\* A Paired sender has just been rejected.
C10_Witness ==
    /\ last.ev = "send_message"
    /\ Paired(last.c)
    /\ Emitted(out, "rate_limit_exceeded") # {}
    /\ PartnersOf(activeRooms, last.c) \cap live # {}

\* -------------------------------------------------------------------- C11
\* The rate record of connection a as a sequence: empty when it has none.
RecordOf(mc, a) == IF a \in DOMAIN mc THEN << mc[a] >> ELSE << >>

\* C11: rate limiting is per connection. A step handled for another
\* connection, and a tick of the clock, leave A's record as it was, and the
\* admit/reject decision for a send_message of A is a function of A's own
\* record and the time alone; so the decisions for A's messages are the same
\* in two runs that agree on A's send_message events and their times.
C11_PerConnectionBudget ==
    [][ \A a \in Ids :
          /\ (last'.c # a \/ now' # now) =>
                RecordOf(messageCounts', a) = RecordOf(messageCounts, a)
          /\ (Handles("send_message", a) /\ now' = now) =>
                LET r == RecordOf(messageCounts, a)
                    admitted == Emitted(out', "rate_limit_exceeded") = {}
                IN  admitted <=> (\/ r = << >>
                                  \/ now > r[1].resetTime
                                  \/ r[1].count < 10) ]_vars

\* A message of one connection has just been admitted inside a window in
\* which the other connection has used up its budget.
C11_Witness ==
    /\ last.ev = "send_message"
    /\ Emitted(out, "rate_limit_exceeded") = {}
    /\ last.c \in DOMAIN messageCounts
    /\ messageCounts[last.c].count \in 2 .. 9
    /\ \E d \in DOMAIN messageCounts :
          /\ d # last.c
          /\ messageCounts[d].count = 10
          /\ now <= messageCounts[d].resetTime

\* -------------------------------------------------------------------- C12
\* C12: a join_queue from a connection that is already Paired or already
\* Queued is ignored: the waiting queue, the Room Registry and the
\* connection's stored display name and avatar are unchanged, and nothing is
\* emitted.
C12_RepeatedJoinIgnored ==
    [][ \A c \in Ids :
          (Handles("join_queue", c) /\ (Paired(c) \/ Queued(c))) =>
             /\ waitingQueue' = waitingQueue
             /\ activeRooms' = activeRooms
             /\ socketData'[c] = socketData[c]
             /\ out' = << >> ]_vars

\* -------------------------------------------------------------------- C13
\* C13: a skip by the connection whose skip was the event handled just
\* before, and a skip by an Idle connection, change none of the collections
\* (nor a stored name or a group membership) and emit nothing; so skip;skip
\* leaves the state and the emitted events of a single skip.
C13_SkipIdempotent ==
    [][ \A c \in Ids :
          (Handles("skip", c) /\ (last = [ ev |-> "skip", c |-> c ] \/ Idle(c))) =>
             /\ waitingQueue' = waitingQueue
             /\ activeRooms' = activeRooms
             /\ publicKeys' = publicKeys
             /\ messageCounts' = messageCounts
             /\ socketData' = socketData
             /\ joined' = joined
             /\ out' = << >> ]_vars

\* Connection 2 was paired with connection 1, has skipped, and has skipped
\* again.
C13_Witness ==
    /\ hist = << [ ev |-> "join_queue", c |-> 1 ],
                 [ ev |-> "join_queue", c |-> 2 ],
                 [ ev |-> "skip", c |-> 2 ],
                 [ ev |-> "skip", c |-> 2 ] >>
    /\ last = [ ev |-> "skip", c |-> 2 ]
    /\ out = << >>

\* -------------------------------------------------------------------- C14
\* C14: a connection that has disconnected is in none of the four
\* collections, in this state and in every later one: it is not in
\* waitingQueue, it has no activeRooms entry and no connection is still mapped
\* to a room it was a member of, and it has no messageCounts and no
\* publicKeys record.
C14_DisconnectedIsGone ==
    \A c \in Ids :
        (c < nextId /\ c \notin live) =>
           /\ ~Queued(c)
           /\ ~Paired(c)
           /\ \A i \in DOMAIN activeRooms :
                \A k \in DOMAIN activeRooms[i].room : activeRooms[i].room[k] # c
           /\ c \notin DOMAIN messageCounts
           /\ c \notin DOMAIN publicKeys

\* A Paired connection has just disconnected and its partner was told, while
\* a key is still stored for some connection.
C14_Witness ==
    /\ last.ev = "disconnect"
    /\ last.c \notin live
    /\ Emitted(out, "partner_disconnected") # {}
    /\ DOMAIN publicKeys # {}

\* -------------------------------------------------------------------- C15
\* What an exchange_keys event must have done, key being the publicKey it
\* carried: the key is the connection's record, the other records are as they
\* were, and one partner_public_key with that key went to the partner if the
\* connection was Paired, nothing to anyone otherwise.
KeyStoredAndForwarded(c, key) ==
    /\ RecordOf(publicKeys', c) = << key >>
    /\ \A d \in Ids \ { c } : RecordOf(publicKeys', d) = RecordOf(publicKeys, d)
    /\ IF Paired(c)
       THEN /\ Len(out') = 1
            /\ out'[1].ev = "partner_public_key"
            /\ out'[1].data = << key >>
            /\ { out'[1].to } = PartnersOf(activeRooms, c)
       ELSE out' = << >>

\* C15 as stated: an exchange_keys event with a string publicKey stores that
\* key as the connection's single record and, if and only if the connection
\* is Paired, delivers one partner_public_key with the same key to its
\* partner and to no one else.
C15_StringKeyStored ==
    [][ \A c \in Ids :
          (/\ Handles("exchange_keys", c)
           /\ hist' # << >>
           /\ hist'[1].data.publicKey.kind = "string") =>
             KeyStoredAndForwarded(c, hist'[1].data.publicKey.text) ]_vars

\* C15, amended: the same for a non-empty string publicKey; an event whose
\* publicKey is the empty string or not a string stores nothing, changes no
\* record and delivers nothing.
C15_NonEmptyKeyStored ==
    [][ \A c \in Ids :
          (Handles("exchange_keys", c) /\ hist' # << >>) =>
             LET publicKey == hist'[1].data.publicKey
             IN  IF publicKey.kind = "string" /\ publicKey.text # << >>
                 THEN KeyStoredAndForwarded(c, publicKey.text)
                 ELSE publicKeys' = publicKeys /\ out' = << >> ]_vars

\* A Paired connection has just published the key k2, which is now its
\* record and has reached its partner, while a third connection that stores
\* a key of its own is connected.
C15_Witness ==
    /\ last.ev = "exchange_keys"
    /\ hist = << [ ev |-> "exchange_keys", c |-> last.c,
                   data |-> [ publicKey |-> [ kind |-> "string", text |-> << "k2" >> ] ] ] >>
    /\ Paired(last.c)
    /\ RecordOf(publicKeys, last.c) = << << "k2" >> >>
    /\ Len(out) = 1
    /\ out[1].data = << << "k2" >> >>
    /\ \E d \in live : ~Paired(d) /\ d \in DOMAIN publicKeys

\* -------------------------------------------------------------------- C16
\* C16: a partner_public_key is emitted only by the handler of an
\* exchange_keys event, with the connection that published as its origin; a
\* join_queue emits chat_start events and nothing else, so pairing delivers
\* no stored key.
C16_PairingDeliversNoKey ==
    /\ \A i \in Emitted(out, "partner_public_key") :
         last = [ ev |-> "exchange_keys", c |-> out[i].from ]
    /\ last.ev = "join_queue" => \A i \in DOMAIN out : out[i].ev = "chat_start"

\* Two connections that had each stored a key have just been paired: each
\* got its chat_start and no key.
C16_Witness ==
    /\ last.ev = "join_queue"
    /\ Paired(last.c)
    /\ Len(out) = 2
    /\ last.c \in DOMAIN publicKeys
    /\ \A p \in PartnersOf(activeRooms, last.c) : p \in DOMAIN publicKeys

\* -------------------------------------------------------------------- C17
\* C17: the disconnect of a connection leaves the publicKeys record of every
\* other connection, its partner included, as it was: a key record is removed
\* only by the disconnect of the connection that owns it.
C17_PartnerKeyKept ==
    [][ \A c \in Ids :
          Handles("disconnect", c) =>
             \A d \in Ids \ { c } :
                RecordOf(publicKeys', d) = RecordOf(publicKeys, d) ]_vars

\* -------------------------------------------------------------------- C18
\* C18: a typing or stop_typing event reaches only the connection the Room
\* Registry records as the sender's partner, and nobody when the sender is
\* unpaired, whatever roomId it carries; its handler leaves the rate records
\* as they were and emits no rate_limit_exceeded.
C18_TypingToPartnerOnly ==
    [][ /\ \A i \in Emitted(out', "typing") \cup Emitted(out', "stop_typing") :
             out'[i].to \in PartnersOf(activeRooms, out'[i].from)
        /\ \A c \in Ids :
             (Handles("typing", c) \/ Handles("stop_typing", c)) =>
                /\ messageCounts' = messageCounts
                /\ Emitted(out', "rate_limit_exceeded") = {} ]_vars

\* -------------------------------------------------------------------- C19
\* C19: a message_edited or message_deleted caused by an edit_message or a
\* delete_message of connection c reaches only the connection the Room
\* Registry records as c's partner, whatever roomId the event carries, and
\* carries the id (and the text) of the event.
C19_EditsToPartnerOnly ==
    [][ \A c \in Ids :
          /\ Handles("edit_message", c) =>
               \A i \in DOMAIN out' :
                  /\ out'[i].ev = "message_edited"
                  /\ out'[i].data = << hist'[1].data.id, hist'[1].data.text >>
                  /\ out'[i].to \in PartnersOf(activeRooms, c)
          /\ Handles("delete_message", c) =>
               \A i \in DOMAIN out' :
                  /\ out'[i].ev = "message_deleted"
                  /\ out'[i].data = << hist'[1].data.id >>
                  /\ out'[i].to \in PartnersOf(activeRooms, c) ]_vars

\* -------------------------------------------------------------------- C20
\* The room ids the Room Registry maps connection c to.
RoomsOf(m, c) == { m[i].room : i \in { k \in DOMAIN m : m[k].id = c } }

\* C20: when a join_queue from an Idle connection j finds w at the head of the
\* queue, then afterwards neither is in the queue, both map to one room id
\* that no entry had before, and exactly one chat_start goes to each: j's
\* carries w's stored name and avatar, w's carries j's, both carry that room
\* id.
C20_ChatStartToBoth ==
    [][ \A j \in Ids :
          (Handles("join_queue", j) /\ Idle(j) /\ waitingQueue # << >>) =>
             LET w == Head(waitingQueue)
                 toJ == { i \in Emitted(out', "chat_start") : out'[i].to = j }
                 toW == { i \in Emitted(out', "chat_start") : out'[i].to = w }
             IN  /\ \A i \in DOMAIN waitingQueue' : waitingQueue'[i] \notin { j, w }
                 /\ Cardinality(RoomsOf(activeRooms', j)) = 1
                 /\ RoomsOf(activeRooms', w) = RoomsOf(activeRooms', j)
                 /\ \A i \in DOMAIN activeRooms :
                      activeRooms[i].room \notin RoomsOf(activeRooms', j)
                 /\ Len(out') = 2
                 /\ Cardinality(toJ) = 1
                 /\ Cardinality(toW) = 1
                 /\ \A i \in toJ :
                      { out'[i].data } =
                         { << r, socketData'[w].username, socketData'[w].profilePic >> :
                             r \in RoomsOf(activeRooms', j) }
                 /\ \A i \in toW :
                      { out'[i].data } =
                         { << r, socketData'[j].username, socketData'[j].profilePic >> :
                             r \in RoomsOf(activeRooms', j) }
                 /\ socketData'[w] = socketData[w] ]_vars

\* Two connections that joined under different names have just been paired,
\* and the two chat_start events carry different names.
C20_Witness ==
    /\ last.ev = "join_queue"
    /\ Paired(last.c)
    /\ Len(out) = 2
    /\ out[1].data[2] # out[2].data[2]
    /\ out[1].data[1] = out[2].data[1]

\* -------------------------------------------------------------------- C21
\* C21: after a room is dissolved by a skip of either member or by a
\* member's disconnect, every surviving former member is Idle; and a
\* join_queue issued by an Idle connection is accepted: right after it the
\* connection is Queued or Paired.
C21_RejoinAfterDissolve ==
    [][ \A c \in Ids :
          /\ ((Handles("skip", c) \/ Handles("disconnect", c)) /\ Paired(c)) =>
                \A m \in ({ c } \cup PartnersOf(activeRooms, c)) \cap live' :
                   /\ ~Entry(activeRooms', m)
                   /\ \A i \in DOMAIN waitingQueue' : waitingQueue'[i] # m
          /\ (Handles("join_queue", c) /\ Idle(c)) =>
                \/ Entry(activeRooms', c)
                \/ \E i \in DOMAIN waitingQueue' : waitingQueue'[i] = c ]_vars

\* A connection whose partner disconnected from their room has joined the
\* queue again: it is Queued while still in the group of the dissolved room.
C21_Witness ==
    /\ last.ev = "join_queue"
    /\ Queued(last.c)
    /\ joined[last.c] # {}
    /\ activeRooms = << >>
    /\ \E d \in Ids : d < nextId /\ d \notin live

\* -------------------------------------------------------------------- C22
\* In the log of the end-to-end run: the time at which the n-th event of the
\* script arrived, and the outbound events its handler emitted.
ArrivedAt(n) == hist[CHOOSE i \in DOMAIN hist : hist[i].dir = "in" /\ hist[i].n = n].at
Answers(n) == SelectSeq(hist, LAMBDA e : e.dir = "out" /\ e.n = n)

\* The n-th event of the script made exactly one event ev go out, to socket c.
Answered(n, ev, c) ==
    /\ Len(Answers(n)) = 1
    /\ Answers(n)[1].ev = ev
    /\ Answers(n)[1].c = c

\* What C22 expects of the finished run. The script's event 5 is "hi", events
\* 6 to 16 are the 11 rapid messages, 17 is the skip, 18 the second join of A.
RunAsExpected ==
    /\ Answered(5, "receive_message", 2)
    /\ Answers(5)[1].data[1].text = [ kind |-> "string", text |-> << "h", "i" >> ]
    /\ Answers(5)[1].data[1].sender =
          [ kind |-> "string", text |-> << "o", "t", "h", "e", "r" >> ]
    /\ \A k \in 1 .. 10 :
          /\ Answered(5 + k, "receive_message", 2)
          /\ Answers(5 + k)[1].data[1].id = RunScript[5 + k].id
    /\ Answered(16, "rate_limit_exceeded", 1)
    /\ Answered(17, "partner_disconnected", 2)
    /\ ~Paired(1)
    /\ ~Paired(2)
    /\ Answers(18) = << >>
    /\ Queued(1)

\* C22 as stated: in the run A join_queue, B join_queue, A sends "hi", A
\* sends 11 messages, A skips, A joins again, B receives "hi" from "other",
\* messages 1-10 reach B and message 11 brings rate_limit_exceeded to A only,
\* B receives partner_disconnected, the registry holds neither, and A's join
\* is accepted.
C22_EndToEndRun == RunPc = 18 => RunAsExpected

\* C22, amended: the same, for the runs in which the first of the 11
\* messages arrives more than 1000 ms after "hi" and the eleventh at most
\* 1000 ms after the first.
C22_EndToEndRunTimed ==
    (/\ RunPc = 18
     /\ ArrivedAt(6) > ArrivedAt(5) + 1000
     /\ ArrivedAt(16) <= ArrivedAt(6) + 1000) => RunAsExpected

\* The run is over, and the 11 messages came 1500 ms after "hi".
C22_Witness ==
    /\ RunPc = 18
    /\ ArrivedAt(5) = 0
    /\ ArrivedAt(6) = 1500
    /\ ArrivedAt(16) = 1500
    /\ Queued(1)

\* -------------------------------------------------------------------- C23
\* C23: no inbound event stops the coordinator: whatever events arrive, an
\* event with a missing payload included, the process never ends on an
\* exception and goes on handling events.
C23_NeverStopped == last.ev # "uncaughtException"

\* -------------------------------------------------------------------- C24
\* C24: a send_message from a connection without a Room Registry entry
\* produces no outbound event at all, neither a receive_message to anyone nor
\* a rate_limit_exceeded to the sender, however many of them it sends.
C24_UnpairedSendSilent ==
    (last.ev = "send_message" /\ ~Paired(last.c)) => out = << >>

\* -------------------------------------------------------------------- C25
\* C25: every rate record has a count from 1 to the limit of 10, and a
\* send_message that arrives inside its connection's window when the count
\* is 10 is rejected.
C25_CountWithinLimit ==
    [][ /\ \A c \in DOMAIN messageCounts' :
             /\ messageCounts'[c].count >= 1
             /\ messageCounts'[c].count <= 10
        /\ \A c \in Ids :
             (/\ Handles("send_message", c)
              /\ now' = now
              /\ c \in DOMAIN messageCounts
              /\ messageCounts[c].count = 10
              /\ now <= messageCounts[c].resetTime) =>
                /\ Emitted(out', "rate_limit_exceeded") # {}
                /\ Emitted(out', "receive_message") = {} ]_vars

\* One connection has just been rejected with its count at the limit while
\* the other one has a record below the limit.
C25_Witness ==
    /\ last.ev = "send_message"
    /\ Emitted(out, "rate_limit_exceeded") # {}
    /\ last.c \in DOMAIN messageCounts
    /\ messageCounts[last.c].count = 10
    /\ \E d \in DOMAIN messageCounts : messageCounts[d].count < 10

\* -------------------------------------------------------------------- C26
\* C26: a rejected send_message leaves its connection's rate record as it was
\* (count and resetTime), and leaves the waiting queue and the Room Registry
\* as they were; so a rejection never moves the end of the window.
C26_RejectionChangesNothing ==
    [][ \A c \in Ids :
          (/\ Handles("send_message", c)
           /\ now' = now
           /\ Emitted(out', "rate_limit_exceeded") # {}) =>
             /\ messageCounts' = messageCounts
             /\ waitingQueue' = waitingQueue
             /\ activeRooms' = activeRooms ]_vars

\* A Queued connection has just been rejected at the last instant of its
\* window.
C26_Witness ==
    /\ last.ev = "send_message"
    /\ Emitted(out, "rate_limit_exceeded") # {}
    /\ Queued(last.c)
    /\ last.c \in DOMAIN messageCounts
    /\ now = messageCounts[last.c].resetTime

\* -------------------------------------------------------------------- C27
\* C27: whatever username a join_queue carries, the display name it stores
\* is a non-empty string of at most 50 characters without a raw '<' or '>';
\* for a username that is missing, not a string, empty or made of blanks only
\* it is "Anonymous".
C27_StoredNameIsSafe ==
    [][ \A c \in Ids :
          (Handles("join_queue", c) /\ hist' # << >>) =>
             LET username == hist'[1].data.username
                 stored == socketData'[c].username
             IN  /\ Len(stored) >= 1
                 /\ Len(stored) <= 50
                 /\ \A i \in DOMAIN stored : stored[i] \notin { "<", ">" }
                 /\ (\/ username.kind # "string"
                     \/ \A i \in DOMAIN username.text :
                          username.text[i] \in { " ", "tab", "newline" })
                    => stored = << "A", "n", "o", "n", "y", "m", "o", "u", "s" >> ]_vars

\* A username with markup near its end has been stored: 50 characters, cut
\* inside the escaped '<'.
C27_Witness ==
    /\ last.ev = "join_queue"
    /\ hist # << >>
    /\ \E i \in DOMAIN hist[1].data.username.text :
          hist[1].data.username.text[i] = "<"
    /\ Len(socketData[last.c].username) = 50
    /\ socketData[last.c].username[50] = "&"

\* -------------------------------------------------------------------- C28
\* C28: the removal of connection c from the waiting queue on skip or
\* disconnect takes out c and nothing else, changes nothing when c is not in
\* the queue, and leaves the connections that remain in the order they had.
C28_RemovalKeepsOrder ==
    [][ \A c \in Ids :
          (Handles("skip", c) \/ Handles("disconnect", c)) =>
             LET q == waitingQueue
                 r == waitingQueue'
             IN  /\ \A i \in DOMAIN r : r[i] # c
                 /\ \A i \in DOMAIN q : q[i] # c => \E k \in DOMAIN r : r[k] = q[i]
                 /\ Len(r) = Cardinality({ i \in DOMAIN q : q[i] # c })
                 /\ \A i, k \in DOMAIN r :
                      i < k => \E a, b \in DOMAIN q :
                                  a < b /\ q[a] = r[i] /\ q[b] = r[k]
                 /\ (\A i \in DOMAIN q : q[i] # c) => r = q ]_vars

\* Connection 2 has just been removed from between connections 1 and 3.
C28_Witness ==
    /\ hist # << >>
    /\ hist[1].c = 2
    /\ hist[1].data = << 1, 2, 3 >>
    /\ waitingQueue = << 1, 3 >>

\* -------------------------------------------------------------------- C29
\* C29: for a Paired sender, every send_message the rate limiter accepts is
\* delivered to the partner exactly once, by the handler of that very event;
\* the handlers run in the order the events were issued, so the partner gets
\* the messages in that order.
C29_DeliveredInOrderOnce ==
    [][ \A c \in Ids :
          (/\ Handles("send_message", c)
           /\ now' = now
           /\ Paired(c)
           /\ Emitted(out', "rate_limit_exceeded") = {}) =>
             /\ Len(out') = 1
             /\ out'[1].ev = "receive_message"
             /\ out'[1].from = c
             /\ { out'[1].to } = PartnersOf(activeRooms, c) ]_vars

\* -------------------------------------------------------------------- C30
\* C30: the receive_message delivered for a send_message carries sender
\* "other", the text, fileContent, fileType, replyTo and encrypted of the
\* event unchanged, the type "text" when the event has none, and the id of
\* the event whenever it has one, 0 included; the server's own id only when
\* the event has none.
C30_MessagePassedOn ==
    [][ \A c \in Ids :
          (Handles("send_message", c) /\ now' = now /\ hist' # << >>) =>
             \A i \in Emitted(out', "receive_message") :
                LET sent == hist'[1].data
                    got == out'[i].data[1]
                IN  /\ got.sender = [ kind |-> "string",
                                      text |-> << "o", "t", "h", "e", "r" >> ]
                    /\ got.text = sent.text
                    /\ got.fileContent = sent.fileContent
                    /\ got.fileType = sent.fileType
                    /\ got.replyTo = sent.replyTo
                    /\ got.encrypted = sent.encrypted
                    /\ got.type = IF sent.type.kind = "undefined"
                                  THEN [ kind |-> "string",
                                         text |-> << "t", "e", "x", "t" >> ]
                                  ELSE sent.type
                    /\ sent.id.kind # "undefined" => got.id = sent.id
                    /\ sent.id.kind = "undefined" => got.id.kind = "number" ]_vars

\* -------------------------------------------------------------------- C31
\* The connections the Room Registry maps to the room of its i-th entry.
MembersAt(i) ==
    { activeRooms[k].id :
        k \in { k \in DOMAIN activeRooms : activeRooms[k].room = activeRooms[i].room } }

\* C31: two rooms that are open at the same time for different pairs of
\* connections have different room id strings, and the room id string of a
\* pair is made of "room", the ids of its two members and nothing else.
C31_RoomIdsUnambiguous ==
    \A i, k \in DOMAIN activeRooms :
        /\ MembersAt(i) # MembersAt(k) =>
              RoomText(activeRooms[i].room) # RoomText(activeRooms[k].room)
        /\ \E x, y \in MembersAt(i) :
              /\ MembersAt(i) = { x, y }
              /\ RoomText(activeRooms[i].room) =
                    << "r", "o", "o", "m", "_" >> \o SocketIdText(x)
                        \o << "_" >> \o SocketIdText(y)

\* Two rooms are open at the same time.
C31_Witness ==
    /\ Len(activeRooms) = 4
    /\ \E i, k \in DOMAIN activeRooms : MembersAt(i) # MembersAt(k)

\* -------------------------------------------------------------------- C32
\* C32: a connection is in the broadcast group named by a room id only if the
\* Room Registry maps the connection to that room id; after one member has
\* skipped, the other is in the dissolved room's group no longer.
C32_GroupsFollowRegistry ==
    \A c \in DOMAIN joined :
        \A r \in joined[c] :
            \E i \in DOMAIN activeRooms :
                activeRooms[i].id = c /\ activeRooms[i].room = r

\* -------------------------------------------------------------------- C33
\* C33: the waiting queue never holds more than one connection, and a
\* join_queue from an Idle connection that finds another connection Queued
\* pairs the two and leaves the queue empty.
C33_AtMostOneWaiting ==
    [][ /\ Len(waitingQueue') <= 1
        /\ \A c, q \in Ids :
              (Handles("join_queue", c) /\ Idle(c) /\ Queued(q) /\ q # c) =>
                 /\ waitingQueue' = << >>
                 /\ PartnersOf(activeRooms', c) = { q }
                 /\ PartnersOf(activeRooms', q) = { c } ]_vars

\* The waiting connection has just been paired while a third one looked on.
C33_Witness ==
    /\ last.ev = "join_queue"
    /\ Cardinality(live) = 3
    /\ Cardinality(PartnersOf(activeRooms, last.c)) = 1
    /\ \E c \in live : Idle(c)

\* -------------------------------------------------------------------- C34
\* C34: a connection that has disconnected is in no Room Registry entry, in
\* no room of the registry and not in the queue, and no chat_start is sent to
\* it or for a room that names it.
C34_DisconnectedNeverPaired ==
    /\ \A i \in DOMAIN activeRooms :
          /\ activeRooms[i].id \in live
          /\ activeRooms[i].room[1] \in live
          /\ activeRooms[i].room[2] \in live
    /\ \A i \in DOMAIN waitingQueue : waitingQueue[i] \in live
    /\ \A i \in Emitted(out, "chat_start") :
          /\ out[i].to \in live
          /\ out[i].data[1][1] \in live
          /\ out[i].data[1][2] \in live

\* Two connections have just been paired after another one had disconnected.
C34_Witness ==
    /\ last.ev = "join_queue"
    /\ Emitted(out, "chat_start") # {}
    /\ \E c \in Ids : c < nextId /\ c \notin live

\* -------------------------------------------------------------------- C35
\* C35: a skip by a Queued connection takes it off the waiting queue, leaves
\* the Room Registry as it is, emits nothing to anyone and leaves the
\* connection Idle.
C35_QueuedSkip ==
    [][ \A c \in Ids :
          (Handles("skip", c) /\ Queued(c)) =>
             /\ \A i \in DOMAIN waitingQueue' : waitingQueue'[i] # c
             /\ Len(waitingQueue') = Len(waitingQueue) - 1
             /\ activeRooms' = activeRooms
             /\ out' = << >>
             /\ \A i \in DOMAIN activeRooms' : activeRooms'[i].id # c ]_vars

\* The second connection has joined the queue and then skipped.
C35_Witness ==
    /\ Len(hist) >= 2
    /\ hist[Len(hist) - 1] = [ ev |-> "join_queue", c |-> 2 ]
    /\ hist[Len(hist)] = [ ev |-> "skip", c |-> 2 ]
    /\ last = [ ev |-> "skip", c |-> 2 ]
    /\ waitingQueue = << >>
    /\ activeRooms = << >>

\* -------------------------------------------------------------------- C36
\* C36: a skip leaves the rate table and the key table as they are, for every
\* connection, and so does the join_queue that pairs the connection again:
\* its rate record and its public key go with it into the next pairing.
C36_SkipKeepsRecords ==
    [][ \A c \in Ids :
          (Handles("skip", c) \/ Handles("join_queue", c)) =>
             /\ messageCounts' = messageCounts
             /\ publicKeys' = publicKeys ]_vars

\* A Paired connection that has a key and a rate record has just skipped.
C36_Witness ==
    /\ last.ev = "skip"
    /\ Emitted(out, "partner_disconnected") # {}
    /\ last.c \in DOMAIN publicKeys
    /\ last.c \in DOMAIN messageCounts

\* -------------------------------------------------------------------- C37
\* C37: a send_message starts a new window exactly when its connection has no
\* record or the clock is strictly past the record's resetTime; a message
\* that arrives when the clock equals resetTime is counted in the old window,
\* and rejected if that window's count has reached the limit.
C37_ResetStrictlyAfter ==
    [][ \A c \in Ids :
          (Handles("send_message", c) /\ now' = now) =>
             LET known == c \in DOMAIN messageCounts
                 restarted == ~known \/ messageCounts'[c].resetTime
                                          # messageCounts[c].resetTime
             IN  /\ restarted <=> (~known \/ now > messageCounts[c].resetTime)
                 /\ restarted => messageCounts'[c].resetTime = now + 1000
                 /\ (known /\ now = messageCounts[c].resetTime) =>
                       IF messageCounts[c].count >= 10
                       THEN /\ Emitted(out', "rate_limit_exceeded") # {}
                            /\ messageCounts'[c] = messageCounts[c]
                       ELSE /\ Emitted(out', "rate_limit_exceeded") = {}
                            /\ messageCounts'[c].count = messageCounts[c].count + 1 ]_vars

\* A message has just been rejected at the very end of its window.
C37_Witness ==
    /\ last.ev = "send_message"
    /\ Emitted(out, "rate_limit_exceeded") # {}
    /\ last.c \in DOMAIN messageCounts
    /\ messageCounts[last.c].resetTime = now

\* -------------------------------------------------------------------- C38
\* The number of messages admitted from time a to time b, both included.
AdmittedIn(a, b) == Cardinality({ i \in DOMAIN hist : a <= hist[i] /\ hist[i] <= b })

\* C38: in no interval of length W does a connection get more than 2 * L
\* messages admitted, and from the start of a window to its resetTime it gets
\* no more than L admitted (L = 10, W = 1000 ms).
C38_BurstBound ==
    /\ \A k \in 0 .. MaxTicks : AdmittedIn(k * TickMs, k * TickMs + 1000) <= 2 * 10
    /\ \A c \in DOMAIN messageCounts :
          AdmittedIn(messageCounts[c].resetTime - 1000, messageCounts[c].resetTime)
            <= 10

\* More than L messages were admitted within W, across the end of a window
\* that was used up.
C38_Witness ==
    /\ \E k \in 0 .. MaxTicks : AdmittedIn(k * TickMs, k * TickMs + 1000) > 10
    /\ \E c \in DOMAIN messageCounts :
          /\ messageCounts[c].count = 10
          /\ AdmittedIn(messageCounts[c].resetTime - 1000, messageCounts[c].resetTime)
               = 10

\* -------------------------------------------------------------------- C39
\* C39: once the client has got partner_disconnected, and until it gets the
\* next chat_start, nothing its user does makes it emit a send_message or a
\* typing event.
C39_SilentAfterPartnerLeft ==
    [][ (hist # << >> /\ hist[1] = [ ev |-> "partner_disconnected" ]) =>
          /\ Emitted(out', "send_message") = {}
          /\ Emitted(out', "typing") = {} ]_vars

\* -------------------------------------------------------------------- C40
\* C40: a message_deleted{id} leaves the list with its length, order and ids
\* and sets isDeleted on the messages with that id and on no other; a
\* message_edited{id, text} gives the messages with that id the new text and
\* isEdited and changes no other; an id no message has leaves the list as it
\* is.
C40_MarkedInPlace ==
    [][ \A ev \in { "message_deleted", "message_edited" } :
          (last' = [ ev |-> ev, c |-> 0 ] /\ hist' # << >> /\ hist'[1].ev = ev) =>
             LET data == hist'[1].data
                 before == client.messages
                 after == client'.messages
             IN  /\ Len(after) = Len(before)
                 /\ \A i \in DOMAIN before :
                       /\ after[i].id = before[i].id
                       /\ after[i].sender = before[i].sender
                       /\ IF before[i].id # data.id
                          THEN after[i] = before[i]
                          ELSE IF ev = "message_deleted"
                          THEN /\ after[i].isDeleted
                               /\ after[i].text = before[i].text
                               /\ after[i].isEdited = before[i].isEdited
                          ELSE /\ after[i].isEdited
                               /\ after[i].text = data.text
                               /\ after[i].isDeleted = before[i].isDeleted
                 /\ (\A i \in DOMAIN before : before[i].id # data.id) =>
                       after = before ]_vars

\* One of two messages has just been marked deleted, the other one, whose id
\* has the same digits, has not.
C40_Witness ==
    /\ last = [ ev |-> "message_deleted", c |-> 0 ]
    /\ Len(client.messages) = 2
    /\ \E i, k \in DOMAIN client.messages :
          /\ client.messages[i].id = hist[1].data.id
          /\ client.messages[i].isDeleted
          /\ client.messages[k].id.text = client.messages[i].id.text
          /\ ~client.messages[k].isDeleted

====
